---- MODULE Spec2Model ----
(***************************************************************************)
(* The round-robin ACL scheduler of the HCI layer                          *)
(* (RoundRobinScheduler, src/gd/btaa/hci_processor.h lines 59-245, with    *)
(* its declaration in src/gd/hci/round_robin_scheduler.h) as a state       *)
(* machine.  Every operation runs on the one handler thread, so each is    *)
(* one atomic action.  The connections' egress queues, the controller      *)
(* and the HCI egress queue are the environment.                           *)
(***************************************************************************)
EXTENDS Integers, Sequences, FiniteSets, TLC

\* ------------------------------------------------------------------ bounds
\* connection handles the controller may assign
NumHandles == 2
\* connections established in a run (Register calls)
MaxConns == 2
\* payloads the upper layer delivers to one connection
MaxDelivered == 2
\* largest classic and LE buffer counts the controller may report
MaxCredits == 2
LeMaxCredits == 1
\* the controller's ACL data packet lengths (hci_mtu_, le_hci_mtu_)
HciMtu == 2
LeHciMtu == 1
\* module descriptors the process links in
NumModules == 3
\* longest ModuleList (root list or declared dependency list)
MaxListLen == 2
\* remote devices whose sections the configuration may hold
NumDevices == 3
\* largest temp_device_capacity a ConfigCache is built with
MaxTempDevices == 2
\* uint16_t arithmetic of the credit counters and number_of_sent_packets_
U16 == 65536

Handles == 1..NumHandles
Kinds == {"CLASSIC", "LE"}
\* payload lengths: the classic MTU, which is one fragment on a classic link and
\* several on an LE link (LeHciMtu < HciMtu)
Lens == {HciMtu}
\* the past-the-end iterator of acl_queue_handlers_
END == 0
\* a default-constructed or otherwise invalid iterator
INVALID == -1
\* what incrementing the end iterator of an empty map may do
UBOutcomes == {"end", "invalid", "abort"}
\* no fragment
NoFrag == [handle |-> 0]

VARIABLES
  acl_queue_handlers_,          \* handle -> acl_queue_handler record
  fragments_to_send_,           \* FIFO of prepared fragments
  max_acl_packet_credits_,
  acl_packet_credits_,
  le_max_acl_packet_credits_,
  le_acl_packet_credits_,
  enqueue_registered_,
  starting_point_,              \* a registered handle, END or INVALID
  posted,                       \* StartRoundRobin tasks posted to handler_
  queue_down_end,               \* handle -> payloads waiting in the connection's queue
  dequeue_order,                \* handles with a registered dequeue, oldest registration first
  controller_pending,           \* handle -> fragments the controller holds, not yet completed
  failed,                       \* "none", or the ASSERT / undefined behaviour that ended the process
  disc_called,                  \* handles on which SetDisconnect ran since their Register
  delivered,                    \* handle -> payloads delivered to the connection so far
  nconn,                        \* connections registered so far
  last_emitted,                 \* the fragment HandleEnqueueNextFragment returned last, or NoFrag
  last_of,                      \* handle -> last fragment emitted for the connection, or NoFrag
  history,                      \* the operations so far, kept only by the scenario specifications
  started_modules_,             \* the module descriptors that have a started instance
  start_order_,                 \* descriptors in the order Start recorded them
  dependencies_,                \* descriptor -> the list its ListDependencies declares, once known
  call_stack,                   \* the frames of ModuleRegistry::Start in progress, innermost last
  ctor_count,                   \* descriptor -> runs of its ctor_ since the last StopAll
  start_count,                  \* descriptor -> runs of its Start step since the last StopAll
  start_log,                    \* descriptors in the order their Start steps completed
  stop_order,                   \* descriptors in the order the last StopAll ran their Stop steps
  information_sections_,        \* the sections that are not devices, in insertion order
  persistent_devices_,          \* the device sections with a link key, in insertion order
  temporary_devices_,           \* the other device sections, warmest first
  temp_device_capacity,         \* the capacity temporary_devices_ was built with
  touched,                      \* device sections by their last SetProperty, latest first,
                                \* kept only by the specifications that log it
  callbacks_,                   \* the four legacy inquiry callbacks, NullCallback where unset
  general_inquiry_active_,
  limited_inquiry_active_,
  general_periodic_inquiry_active_,
  limited_periodic_inquiry_active_

vars == <<acl_queue_handlers_, fragments_to_send_, max_acl_packet_credits_, acl_packet_credits_,
          le_max_acl_packet_credits_, le_acl_packet_credits_, enqueue_registered_, starting_point_,
          posted, queue_down_end, dequeue_order, controller_pending, failed, disc_called,
          delivered, nconn, last_emitted, last_of, history, started_modules_, start_order_,
          dependencies_, call_stack, ctor_count, start_count, start_log, stop_order,
          information_sections_, persistent_devices_, temporary_devices_, temp_device_capacity,
          touched, callbacks_, general_inquiry_active_, limited_inquiry_active_,
          general_periodic_inquiry_active_, limited_periodic_inquiry_active_>>

\* the members of shim::Inquiry::impl
inquiryVars == <<callbacks_, general_inquiry_active_, limited_inquiry_active_,
                 general_periodic_inquiry_active_, limited_periodic_inquiry_active_>>

\* the members of ConfigCache
cacheVars == <<information_sections_, persistent_devices_, temporary_devices_,
               temp_device_capacity, touched>>

\* the members of ModuleRegistry and the bookkeeping of its calls
registryVars == <<started_modules_, start_order_, dependencies_, call_stack, ctor_count,
                  start_count, start_log, stop_order>>

\* the members of RoundRobinScheduler and the bookkeeping of its calls
schedulerVars == <<acl_queue_handlers_, fragments_to_send_, max_acl_packet_credits_,
                   acl_packet_credits_, le_max_acl_packet_credits_, le_acl_packet_credits_,
                   enqueue_registered_, starting_point_, posted, queue_down_end, dequeue_order,
                   controller_pending, disc_called, delivered, nconn, last_emitted, last_of,
                   history>>

\* ------------------------------------------------------------------ helpers
Min(S) == CHOOSE x \in S : \A y \in S : x <= y

\* acl_queue_handlers_.begin()
Begin(keys) == IF keys = {} THEN END ELSE Min(keys)

\* std::next(it) on the handle-ordered map
StdNext(keys, k) ==
  IF \E y \in keys : y > k THEN Min({y \in keys : y > k}) ELSE END

\* the handles of the map in order, as a sequence
RECURSIVE SortedSeq(_)
SortedSeq(S) == IF S = {} THEN <<>> ELSE <<Min(S)>> \o SortedSeq(S \ {Min(S)})

\* the visiting order of the registration loop: all connections, from `from`, wrapping
VisitOrder(keys, from) ==
  SortedSeq({k \in keys : k >= from}) \o SortedSeq({k \in keys : k < from})

RECURSIVE SelectSeqIn(_, _)
SelectSeqIn(s, S) ==
  IF s = <<>> THEN <<>>
  ELSE (IF Head(s) \in S THEN <<Head(s)>> ELSE <<>>) \o SelectSeqIn(Tail(s), S)

PoolOf(kind, acl, le) == IF kind = "CLASSIC" THEN acl ELSE le

\* size_t mtu = connection_type == CLASSIC ? hci_mtu_ : le_hci_mtu_ (line 153)
MtuOf(kind) == IF kind = "CLASSIC" THEN HciMtu ELSE LeHciMtu

\* AclFragmenter(mtu, packet).GetFragments(): the sizes of the MTU-sized pieces
RECURSIVE FragmenterSizes(_, _)
FragmenterSizes(len, mtu) ==
  IF len <= mtu THEN <<len>> ELSE <<mtu>> \o FragmenterSizes(len - mtu, mtu)

\* the sizes of the fragments BufferPacket pushes for a payload (lines 154-167)
FragmentSizes(len, mtu) ==
  IF len <= mtu THEN <<len>> ELSE FragmenterSizes(len, mtu)

\* the fragments with the boundary flag never switched to CONTINUING_FRAGMENT
FragmentsAllFirst(h, kind, seq, len) ==
  LET sizes == FragmentSizes(len, MtuOf(kind))
  IN [i \in 1..Len(sizes) |->
        [kind |-> kind, handle |-> h, seq |-> seq, idx |-> i,
         cnt |-> Len(sizes), size |-> sizes[i], live |-> TRUE,
         pbf |-> "FIRST_AUTOMATICALLY_FLUSHABLE"]]

\* the fragments BufferPacket pushes for the seq-th payload of the connection on h
Fragments(h, kind, seq, len) ==
  LET sizes == FragmentSizes(len, MtuOf(kind))
  IN [i \in 1..Len(sizes) |->
        [kind |-> kind, handle |-> h, seq |-> seq, idx |-> i,
         cnt |-> Len(sizes), size |-> sizes[i], live |-> TRUE,
         pbf |-> IF i = 1 THEN "FIRST_AUTOMATICALLY_FLUSHABLE" ELSE "CONTINUING_FRAGMENT"]]

\* fragments_to_send_.back(): the newest fragment, the wrong end to send from
Back(fifo) == fifo[Len(fifo)]

\* fragments_to_send_.front() and pop()
Front(fifo) == Head(fifo)

Pop(fifo) == Tail(fifo)

\* the history with one more entry, when the specification keeps one
Logged(log, entry) == IF log THEN Append(history, entry) ELSE history

\* the dequeues stay registered while a payload is in the FIFO
DequeuesKept(hs) == hs

\* ------------------------------------------------------------------ the scheduler
\* UnregisterAllConnections: every registered dequeue is unregistered
UnregisterAllConnections(hs) ==
  [h \in DOMAIN hs |-> [hs[h] EXCEPT !.dequeue_is_registered_ = FALSE]]

\* SendNextFragment: enqueue_registered_.exchange(true), RegisterEnqueue if it was false
SendNextFragment(enq) == TRUE

\* the iterator the registration loop starts from (lines 125-127)
LoopStart(keys, sp) ==
  IF Cardinality(keys) = 1 \/ sp = END THEN Begin(keys) ELSE sp

\* a cursor that stays where the loop started
KeepCursor(keys, start) == start

\* starting_point_ = std::next(starting_point_) (line 142)
AdvanceCursor(keys, start) == StdNext(keys, start)

\* the first early return of StartRoundRobin (line 117)
NoCredit(acl, le) == acl = 0 /\ le = 0

\* a StartRoundRobin that calls SendNextFragment without looking at the FIFO
StartRoundRobinSendsAlways(hs, acl, le, fifo, sp, order, enq, ub) ==
  [hs |-> hs, sp |-> sp, order |-> order, enq |-> SendNextFragment(enq), failed |-> "none"]

\* StartRoundRobin on the given scheduler state; ub is the outcome of the increment
\* of the end iterator when the map is empty.  The result holds the fields it writes.
StartRoundRobin(hs, acl, le, fifo, sp, order, enq, ub) ==
  LET keys == DOMAIN hs
      same == [hs |-> hs, sp |-> sp, order |-> order, enq |-> enq, failed |-> "none"]
  IN
  IF NoCredit(acl, le) THEN same
  ELSE IF fifo # <<>> THEN [same EXCEPT !.enq = SendNextFragment(enq)]
  ELSE IF Cardinality(keys) # 1 /\ sp = INVALID
       THEN \* an invalid iterator is compared and dereferenced
            [same EXCEPT !.failed = "ub_invalid_cursor"]
  ELSE IF keys = {}
       THEN \* count = 0: the loop does not run, then std::next(end()) on an empty map
            CASE ub = "end"     -> [same EXCEPT !.sp = END]
              [] ub = "invalid" -> [same EXCEPT !.sp = INVALID]
              [] OTHER          -> [same EXCEPT !.failed = "ub_next_of_end"]
  ELSE LET start == LoopStart(keys, sp)
           visit == VisitOrder(keys, start)
           fresh == {h \in keys : ~hs[h].dequeue_is_registered_}
       IN [hs |-> [h \in keys |-> [hs[h] EXCEPT !.dequeue_is_registered_ = TRUE]],
           sp |-> AdvanceCursor(keys, start),
           order |-> order \o SelectSeqIn(visit, fresh),
           enq |-> enq,
           failed |-> "none"]

\* the scheduler state with no StartRoundRobin call
NoStart(hs) ==
  [hs |-> hs, sp |-> starting_point_, order |-> dequeue_order,
   enq |-> enqueue_registered_, failed |-> "none"]

\* the module descriptors of the process
Modules == 1..NumModules

\* a ModuleRegistry after construction: nothing started, no call in progress
RegistryEmpty ==
  /\ started_modules_ = {}
  /\ start_order_ = <<>>
  /\ dependencies_ = <<>>
  /\ call_stack = <<>>
  /\ ctor_count = [m \in Modules |-> 0]
  /\ start_count = [m \in Modules |-> 0]
  /\ start_log = <<>>
  /\ stop_order = <<>>

\* a callback that was never set, or was reset by UnregisterInquiryCallbacks
NullCallback == 0

\* the members of LegacyInquiryCallbacks
CallbackNames == {"result_callback", "result_with_rssi_callback",
                  "extended_result_callback", "complete_callback"}

\* shim::Inquiry::impl after construction: no callbacks, no inquiry active (lines 46, 57-60)
InquiryIdle ==
  /\ callbacks_ = [name \in CallbackNames |-> NullCallback]
  /\ general_inquiry_active_ = FALSE
  /\ limited_inquiry_active_ = FALSE
  /\ general_periodic_inquiry_active_ = FALSE
  /\ limited_periodic_inquiry_active_ = FALSE

\* ConfigCache(temp_device_capacity): three empty maps (lines 1439-1440)
CacheEmpty(capacity) ==
  /\ information_sections_ = <<>>
  /\ persistent_devices_ = <<>>
  /\ temporary_devices_ = <<>>
  /\ temp_device_capacity = capacity
  /\ touched = <<>>

\* the constructor: the credits start at the buffer counts the controller reports
SchedulerFresh(acls, les) ==
  /\ max_acl_packet_credits_ \in acls
  /\ le_max_acl_packet_credits_ \in les
  /\ acl_packet_credits_ = max_acl_packet_credits_
  /\ le_acl_packet_credits_ = le_max_acl_packet_credits_
  /\ acl_queue_handlers_ = <<>>
  /\ fragments_to_send_ = <<>>
  /\ enqueue_registered_ = FALSE
  /\ starting_point_ = INVALID
  /\ posted = 0
  /\ queue_down_end = <<>>
  /\ dequeue_order = <<>>
  /\ controller_pending = [h \in Handles |-> 0]
  /\ failed = "none"
  /\ disc_called = {}
  /\ delivered = [h \in Handles |-> 0]
  /\ nconn = 0
  /\ last_emitted = NoFrag
  /\ last_of = [h \in Handles |-> NoFrag]
  /\ history = <<>>

\* the process after construction of its objects
InitWith(acls, les) ==
  /\ SchedulerFresh(acls, les)
  /\ RegistryEmpty
  /\ CacheEmpty(MaxTempDevices)
  /\ InquiryIdle

Init == InitWith(1..MaxCredits, 0..LeMaxCredits)

\* the record Register inserts (line 86)
NewHandler(kind) ==
  [connection_type_ |-> kind, dequeue_is_registered_ |-> FALSE,
   number_of_sent_packets_ |-> 0, is_disconnected_ |-> FALSE]

\* the scheduler's members as they are now
SchedulerNow ==
  [hs |-> acl_queue_handlers_, acl |-> acl_packet_credits_, le |-> le_acl_packet_credits_,
   fifo |-> fragments_to_send_, sp |-> starting_point_, order |-> dequeue_order,
   enq |-> enqueue_registered_, failed |-> "none"]

\* what Register(connection_type, handle, queue_down_end) makes of scheduler st
RegisterResult(st, h, kind, ub) ==
  LET hs1 == [x \in DOMAIN st.hs \cup {h} |-> IF x = h THEN NewHandler(kind) ELSE st.hs[x]]
      r == IF Len(st.fifo) = 0
           THEN StartRoundRobin(hs1, st.acl, st.le, st.fifo, st.sp, st.order, st.enq, ub)
           ELSE [hs |-> hs1, sp |-> st.sp, order |-> st.order, enq |-> st.enq,
                 failed |-> "none"]
  IN [st EXCEPT !.hs = r.hs, !.sp = r.sp, !.order = r.order, !.enq = r.enq,
                !.failed = r.failed]

\* Register(connection_type, handle, queue_down_end) of a handle not in use
Register(h, kind, ub, log) ==
  /\ failed = "none"
  /\ h \notin DOMAIN acl_queue_handlers_
  /\ LET r == RegisterResult(SchedulerNow, h, kind, ub)
     IN /\ acl_queue_handlers_' = r.hs
        /\ starting_point_' = r.sp
        /\ dequeue_order' = r.order
        /\ enqueue_registered_' = r.enq
        /\ failed' = r.failed
  /\ queue_down_end' = [x \in DOMAIN queue_down_end \cup {h} |->
                          IF x = h THEN <<>> ELSE queue_down_end[x]]
  /\ delivered' = [delivered EXCEPT ![h] = 0]
  /\ nconn' = nconn + 1
  /\ last_of' = [last_of EXCEPT ![h] = NoFrag]
  /\ history' = Logged(log, [op |-> "Register", handle |-> h, waiting |-> {}])
  /\ UNCHANGED <<fragments_to_send_, max_acl_packet_credits_, acl_packet_credits_,
                 le_max_acl_packet_credits_, le_acl_packet_credits_, posted,
                 controller_pending, disc_called, last_emitted>>
  /\ UNCHANGED registryVars
  /\ UNCHANGED cacheVars
  /\ UNCHANGED inquiryVars

\* what Unregister(handle) makes of scheduler st: the record is erased and the cursor
\* set to begin(); the fragments the connection has in the FIFO stay there
UnregisterResult(st, h) ==
  LET keys1 == DOMAIN st.hs \ {h}
  IN [st EXCEPT
        !.hs = [x \in keys1 |-> st.hs[x]],
        !.sp = Begin(keys1),
        !.order = SelectSeqIn(st.order, Handles \ {h}),
        !.fifo = [i \in 1..Len(st.fifo) |->
                    IF st.fifo[i].handle = h
                    THEN [st.fifo[i] EXCEPT !.live = FALSE]
                    ELSE st.fifo[i]]]

\* Unregister(handle) of a registered handle; the connection and its queue go away
Unregister(h) ==
  /\ failed = "none"
  /\ h \in DOMAIN acl_queue_handlers_
  /\ LET r == UnregisterResult(SchedulerNow, h)
     IN /\ acl_queue_handlers_' = r.hs
        /\ starting_point_' = r.sp
        /\ dequeue_order' = r.order
        /\ fragments_to_send_' = r.fifo
  /\ queue_down_end' = [x \in DOMAIN acl_queue_handlers_ \ {h} |-> queue_down_end[x]]
  /\ controller_pending' = [controller_pending EXCEPT ![h] = 0]
  /\ disc_called' = disc_called \ {h}
  /\ delivered' = [delivered EXCEPT ![h] = 0]
  /\ last_of' = [last_of EXCEPT ![h] = NoFrag]
  /\ UNCHANGED <<max_acl_packet_credits_, acl_packet_credits_, le_max_acl_packet_credits_,
                 le_acl_packet_credits_, enqueue_registered_, posted, failed, last_emitted,
                 nconn, history>>
  /\ UNCHANGED registryVars
  /\ UNCHANGED cacheVars
  /\ UNCHANGED inquiryVars

\* a stored record whose dequeue SetDisconnect would have unregistered
StoredWithoutDequeue(rec) == [rec EXCEPT !.dequeue_is_registered_ = FALSE]

\* the record SetDisconnect leaves in the map: it marks and clears a copy of the
\* stored record (auto acl_queue_handler = ...->second, line 105), so the stored
\* record stays as it was
StoredAfterSetDisconnect(rec) == rec

\* the credits SetDisconnect reclaims (lines 108-112)
Reclaimed(rec) == rec.number_of_sent_packets_

\* SetDisconnect(handle) of a registered handle, once per connection
SetDisconnect(h) ==
  /\ failed = "none"
  /\ h \in DOMAIN acl_queue_handlers_
  /\ h \notin disc_called
  /\ LET rec == acl_queue_handlers_[h]
     IN /\ IF rec.connection_type_ = "CLASSIC"
           THEN /\ acl_packet_credits_' = (acl_packet_credits_ + Reclaimed(rec)) % U16
                /\ UNCHANGED le_acl_packet_credits_
           ELSE /\ le_acl_packet_credits_' = (le_acl_packet_credits_ + Reclaimed(rec)) % U16
                /\ UNCHANGED acl_packet_credits_
        /\ acl_queue_handlers_' = [acl_queue_handlers_ EXCEPT ![h] = StoredAfterSetDisconnect(rec)]
  /\ disc_called' = disc_called \cup {h}
  /\ UNCHANGED <<fragments_to_send_, max_acl_packet_credits_, le_max_acl_packet_credits_,
                 enqueue_registered_, starting_point_, posted, queue_down_end, dequeue_order,
                 controller_pending, failed, delivered, nconn, last_emitted, last_of, history>>
  /\ UNCHANGED registryVars
  /\ UNCHANGED cacheVars
  /\ UNCHANGED inquiryVars

\* what dereferencing the end iterator of acl_queue_handlers_ may do: the process
\* dies, or a record is read from whatever memory is there
DerefEndOutcomes == {"abort", "garbage"}

\* the number_of_sent_packets_ a garbage record may hold
GarbageCounts == 0..MaxCredits

\* SetDisconnect(handle) of a handle that is not registered: find() returns end() and
\* line 105 copies end()->second; there is no check.  The copy is marked and its
\* count added to the pool its connection_type_ selects (lines 106-113).
SetDisconnectUnknown(h) ==
  /\ failed = "none"
  /\ h \notin DOMAIN acl_queue_handlers_
  /\ \E out \in DerefEndOutcomes, kind \in Kinds, count \in GarbageCounts :
       IF out = "abort"
       THEN /\ failed' = "ub_deref_end"
            /\ UNCHANGED <<acl_packet_credits_, le_acl_packet_credits_>>
       ELSE /\ UNCHANGED failed
            /\ PoolOf(kind, acl_packet_credits_, le_acl_packet_credits_) + count <= MaxCredits
            /\ IF kind = "CLASSIC"
               THEN /\ acl_packet_credits_' = (acl_packet_credits_ + count) % U16
                    /\ UNCHANGED le_acl_packet_credits_
               ELSE /\ le_acl_packet_credits_' = (le_acl_packet_credits_ + count) % U16
                    /\ UNCHANGED acl_packet_credits_
  /\ UNCHANGED <<acl_queue_handlers_, fragments_to_send_, max_acl_packet_credits_,
                 le_max_acl_packet_credits_, enqueue_registered_, starting_point_, posted,
                 queue_down_end, dequeue_order, controller_pending, disc_called, delivered,
                 nconn, last_emitted, last_of, history>>
  /\ UNCHANGED registryVars
  /\ UNCHANGED cacheVars
  /\ UNCHANGED inquiryVars

\* the call goes on as if the handle were there and nothing is touched
UnregisterUnknownIgnored(st, h) == st

\* what Unregister(handle) makes of scheduler st when the handle is not registered:
\* ASSERT(acl_queue_handlers_.count(handle) == 1) is the first statement (line 94)
UnregisterUnknownResult(st, h) == [st EXCEPT !.failed = "assert_unregister_count"]

\* Unregister(handle) of a handle that is not registered
UnregisterUnknown(h) ==
  /\ failed = "none"
  /\ h \notin DOMAIN acl_queue_handlers_
  /\ LET r == UnregisterUnknownResult(SchedulerNow, h)
     IN /\ acl_queue_handlers_' = r.hs
        /\ acl_packet_credits_' = r.acl
        /\ le_acl_packet_credits_' = r.le
        /\ fragments_to_send_' = r.fifo
        /\ starting_point_' = r.sp
        /\ dequeue_order' = r.order
        /\ enqueue_registered_' = r.enq
        /\ failed' = r.failed
  /\ UNCHANGED <<max_acl_packet_credits_, le_max_acl_packet_credits_, posted,
                 queue_down_end, controller_pending, disc_called, delivered, nconn,
                 last_emitted, last_of, history>>
  /\ UNCHANGED registryVars
  /\ UNCHANGED cacheVars
  /\ UNCHANGED inquiryVars

\* the upper layer delivers a payload of len bytes to the egress queue of connection h
Enqueue(h, len) ==
  /\ failed = "none"
  /\ h \in DOMAIN acl_queue_handlers_
  /\ delivered' = [delivered EXCEPT ![h] = @ + 1]
  /\ queue_down_end' = [queue_down_end EXCEPT
                          ![h] = Append(@, [seq |-> delivered[h] + 1, len |-> len])]
  /\ UNCHANGED <<acl_queue_handlers_, fragments_to_send_, max_acl_packet_credits_,
                 acl_packet_credits_, le_max_acl_packet_credits_, le_acl_packet_credits_,
                 enqueue_registered_, starting_point_, posted, dequeue_order,
                 controller_pending, failed, disc_called, nconn, last_emitted, last_of, history>>
  /\ UNCHANGED registryVars
  /\ UNCHANGED cacheVars
  /\ UNCHANGED inquiryVars

\* a count of one per buffered payload, whatever the number of its fragments
SentOnePerPayload(fifo_after, pieces) == 1

\* what BufferPacket adds to number_of_sent_packets_: fragments_to_send_.size() (line 171)
SentIncrement(fifo_after, pieces) == Len(fifo_after)

\* what BufferPacket pushes on fragments_to_send_ (lines 154-167)
PushFragments(fifo, pieces) == fifo \o pieces

\* BufferPacket(acl_queue_handler): the dequeue callback of connection h
BufferPacket(h, log) ==
  /\ failed = "none"
  /\ h \in DOMAIN acl_queue_handlers_
  /\ acl_queue_handlers_[h].dequeue_is_registered_
  /\ queue_down_end[h] # <<>>
  /\ LET packet == Head(queue_down_end[h])
         kind == acl_queue_handlers_[h].connection_type_
         pieces == Fragments(h, kind, packet.seq, packet.len)
         fifo1 == PushFragments(fragments_to_send_, pieces)
         hs1 == UnregisterAllConnections(acl_queue_handlers_)
     IN /\ fragments_to_send_' = fifo1
        /\ acl_queue_handlers_' =
             [hs1 EXCEPT ![h].number_of_sent_packets_ = (@ + SentIncrement(fifo1, pieces)) % U16]
  /\ history' = Logged(log,
       [op |-> "Buffer", handle |-> h,
        waiting |-> {x \in DOMAIN queue_down_end \ {h} : queue_down_end[x] # <<>>}])
  /\ queue_down_end' = [queue_down_end EXCEPT ![h] = Tail(@)]
  /\ dequeue_order' = <<>>
  /\ enqueue_registered_' = SendNextFragment(enqueue_registered_)
  /\ UNCHANGED <<max_acl_packet_credits_, acl_packet_credits_, le_max_acl_packet_credits_,
                 le_acl_packet_credits_, starting_point_, posted, controller_pending, failed,
                 disc_called, delivered, nconn, last_emitted, last_of>>
  /\ UNCHANGED registryVars
  /\ UNCHANGED cacheVars
  /\ UNCHANGED inquiryVars

\* an egress buffer that never counts as full
BufferNeverFull(next_kind, acl, le) == FALSE

\* whether HandleEnqueueNextFragment unregisters the enqueue while fragments remain
\* (lines 211-216): the pool of the next fragment's kind is empty
BufferFull(next_kind, acl, le) ==
  \/ next_kind = "CLASSIC" /\ acl = 0
  \/ next_kind = "LE" /\ le = 0

\* HandleEnqueueNextFragment: the HCI egress pulls the next fragment
HandleEnqueueNextFragment(log) ==
  /\ failed = "none"
  /\ enqueue_registered_
  /\ IF fragments_to_send_ = <<>>
     THEN \* front() of an empty queue
          /\ failed' = "ub_front_of_empty"
          /\ UNCHANGED <<fragments_to_send_, acl_packet_credits_, le_acl_packet_credits_,
                         enqueue_registered_, posted, controller_pending, last_emitted,
                         last_of, history>>
     ELSE LET frag == Front(fragments_to_send_)
              kind == frag.kind
          IN IF PoolOf(kind, acl_packet_credits_, le_acl_packet_credits_) = 0
             THEN \* ASSERT(acl_packet_credits_ > 0) / ASSERT(le_acl_packet_credits_ > 0)
                  /\ failed' = IF kind = "CLASSIC" THEN "assert_acl_credits" ELSE "assert_le_credits"
                  /\ UNCHANGED <<fragments_to_send_, acl_packet_credits_, le_acl_packet_credits_,
                                 enqueue_registered_, posted, controller_pending, last_emitted,
                                 last_of, history>>
             ELSE LET acl1 == IF kind = "CLASSIC" THEN acl_packet_credits_ - 1 ELSE acl_packet_credits_
                      le1 == IF kind = "LE" THEN le_acl_packet_credits_ - 1 ELSE le_acl_packet_credits_
                      fifo1 == Pop(fragments_to_send_)
                  IN /\ acl_packet_credits_' = acl1
                     /\ le_acl_packet_credits_' = le1
                     /\ fragments_to_send_' = fifo1
                     /\ last_emitted' = frag
                     /\ last_of' = IF frag.live THEN [last_of EXCEPT ![frag.handle] = frag]
                                    ELSE last_of
                     /\ history' = Logged(log, [op |-> "Emit", handle |-> frag.handle, waiting |-> {}])
                     /\ controller_pending' =
                          IF frag.handle \in DOMAIN acl_queue_handlers_
                          THEN [controller_pending EXCEPT ![frag.handle] = @ + 1]
                          ELSE controller_pending
                     /\ IF fifo1 = <<>>
                        THEN /\ enqueue_registered_' = FALSE
                             /\ posted' = posted + 1
                        ELSE /\ enqueue_registered_' =
                                  IF BufferFull(Front(fifo1).kind, acl1, le1)
                                  THEN FALSE ELSE enqueue_registered_
                             /\ UNCHANGED posted
                     /\ UNCHANGED failed
  /\ UNCHANGED <<acl_queue_handlers_, max_acl_packet_credits_, le_max_acl_packet_credits_,
                 starting_point_, queue_down_end, dequeue_order, disc_called, delivered,
                 nconn>>
  /\ UNCHANGED registryVars
  /\ UNCHANGED cacheVars
  /\ UNCHANGED inquiryVars

\* the StartRoundRobin task posted by HandleEnqueueNextFragment runs
RunPosted(ub) ==
  /\ failed = "none"
  /\ posted > 0
  /\ posted' = posted - 1
  /\ LET r == StartRoundRobin(acl_queue_handlers_, acl_packet_credits_, le_acl_packet_credits_,
                              fragments_to_send_, starting_point_, dequeue_order,
                              enqueue_registered_, ub)
     IN /\ acl_queue_handlers_' = r.hs
        /\ starting_point_' = r.sp
        /\ dequeue_order' = r.order
        /\ enqueue_registered_' = r.enq
        /\ failed' = r.failed
  /\ UNCHANGED <<fragments_to_send_, max_acl_packet_credits_, acl_packet_credits_,
                 le_max_acl_packet_credits_, le_acl_packet_credits_, queue_down_end,
                 controller_pending, disc_called, delivered, nconn, last_emitted, last_of,
                 history>>
  /\ UNCHANGED registryVars
  /\ UNCHANGED cacheVars
  /\ UNCHANGED inquiryVars

\* the test that resumes the round robin after a credit return (line 239)
ResumeTest(acl, le, credits) == acl = credits \/ le = credits

\* whether IncomingAclCredits drops the credits of a registered connection (line 227)
DropsCredits(rec) == rec.is_disconnected_

\* credits of a dropped call counted into the classic pool all the same
AfterCreditToPool(cur, credits) == [cur EXCEPT !.acl = (@ + credits) % U16]

\* the scheduler after IncomingAclCredits logged and returned (lines 223-226, 227-230)
AfterDrop(cur, credits) == cur

\* what IncomingAclCredits(handle, credits) makes of the scheduler; it never touches
\* fragments_to_send_
IncomingAclCreditsResult(h, credits, ub) ==
  IF h \notin DOMAIN acl_queue_handlers_
  THEN \* unknown connection: dropped
       AfterDrop(SchedulerNow, credits)
  ELSE IF DropsCredits(acl_queue_handlers_[h])
  THEN \* disconnected connection: dropped
       AfterDrop(SchedulerNow, credits)
  ELSE LET kind == acl_queue_handlers_[h].connection_type_
           hs1 == [acl_queue_handlers_ EXCEPT
                     ![h].number_of_sent_packets_ = (@ - credits) % U16]
           acl1 == IF kind = "CLASSIC" THEN (acl_packet_credits_ + credits) % U16
                   ELSE acl_packet_credits_
           le1 == IF kind = "LE" THEN (le_acl_packet_credits_ + credits) % U16
                  ELSE le_acl_packet_credits_
           r == IF ResumeTest(acl1, le1, credits)
                THEN StartRoundRobin(hs1, acl1, le1, fragments_to_send_, starting_point_,
                                     dequeue_order, enqueue_registered_, ub)
                ELSE NoStart(hs1)
           credited == [SchedulerNow EXCEPT !.hs = hs1, !.acl = acl1, !.le = le1]
       IN IF acl1 > max_acl_packet_credits_
          THEN \* ASSERT(acl_packet_credits_ <= max_acl_packet_credits_)
               [credited EXCEPT !.failed = "assert_acl_max"]
          ELSE IF le1 > le_max_acl_packet_credits_
          THEN \* ASSERT(le_acl_packet_credits_ <= le_max_acl_packet_credits_)
               [credited EXCEPT !.failed = "assert_le_max"]
          ELSE [credited EXCEPT !.hs = r.hs, !.sp = r.sp, !.order = r.order,
                                !.enq = r.enq, !.failed = r.failed]

\* the credit pools after IncomingAclCredits added the credits to the pool of h's kind
\* (lines 232-236)
CreditedPools(h, credits) ==
  LET kind == acl_queue_handlers_[h].connection_type_
  IN [acl |-> IF kind = "CLASSIC" THEN (acl_packet_credits_ + credits) % U16
              ELSE acl_packet_credits_,
      le |-> IF kind = "LE" THEN (le_acl_packet_credits_ + credits) % U16
             ELSE le_acl_packet_credits_]

\* whether IncomingAclCredits(h, credits) reaches the test of line 239: h is registered
\* and not disconnected, and both ASSERTs of lines 237-238 pass
ReachesResumeTest(h, credits) ==
  /\ h \in DOMAIN acl_queue_handlers_
  /\ ~DropsCredits(acl_queue_handlers_[h])
  /\ CreditedPools(h, credits).acl <= max_acl_packet_credits_
  /\ CreditedPools(h, credits).le <= le_max_acl_packet_credits_

\* whether IncomingAclCredits(h, credits) calls StartRoundRobin (lines 239-241)
CallsStartRoundRobin(h, credits) ==
  /\ ReachesResumeTest(h, credits)
  /\ ResumeTest(CreditedPools(h, credits).acl, CreditedPools(h, credits).le, credits)

\* IncomingAclCredits(handle, credits): the controller completed `credits` packets of h;
\* for a registered handle it completes at most what it holds
IncomingAclCredits(h, credits, ub) ==
  /\ failed = "none"
  /\ h \in DOMAIN acl_queue_handlers_ => credits <= controller_pending[h]
  /\ controller_pending' = [controller_pending EXCEPT
                              ![h] = IF @ >= credits THEN @ - credits ELSE 0]
  /\ LET r == IncomingAclCreditsResult(h, credits, ub)
     IN /\ acl_queue_handlers_' = r.hs
        /\ acl_packet_credits_' = r.acl
        /\ le_acl_packet_credits_' = r.le
        /\ starting_point_' = r.sp
        /\ dequeue_order' = r.order
        /\ enqueue_registered_' = r.enq
        /\ failed' = r.failed
  /\ UNCHANGED <<fragments_to_send_, max_acl_packet_credits_, le_max_acl_packet_credits_,
                 posted, queue_down_end, disc_called, delivered, nconn, last_emitted,
                 last_of, history>>
  /\ UNCHANGED registryVars
  /\ UNCHANGED cacheVars
  /\ UNCHANGED inquiryVars

\* ------------------------------------------------------------------ the specification
RegisterAny ==
  \E h \in Handles, kind \in Kinds, ub \in UBOutcomes :
    nconn < MaxConns /\ Register(h, kind, ub, FALSE)

UnregisterAny == \E h \in Handles : Unregister(h)

SetDisconnectAny == \E h \in Handles : SetDisconnect(h)

EnqueueAny == \E h \in Handles, len \in Lens : delivered[h] < MaxDelivered /\ Enqueue(h, len)

BufferPacketAny == \E h \in Handles : BufferPacket(h, FALSE)

RunPostedAny == \E ub \in UBOutcomes : RunPosted(ub)

IncomingAclCreditsAny ==
  \E h \in Handles, n \in 1..MaxCredits, ub \in UBOutcomes : IncomingAclCredits(h, n, ub)

Next ==
  \/ RegisterAny
  \/ UnregisterAny
  \/ SetDisconnectAny
  \/ EnqueueAny
  \/ BufferPacketAny
  \/ HandleEnqueueNextFragment(FALSE)
  \/ RunPostedAny
  \/ IncomingAclCreditsAny

Spec == Init /\ [][Next]_vars

\* ------------------------------------------------------------------ the claims
Registered == DOMAIN acl_queue_handlers_

RECURSIVE SumSentOver(_)
SumSentOver(S) ==
  IF S = {} THEN 0
  ELSE LET h == Min(S) IN acl_queue_handlers_[h].number_of_sent_packets_ + SumSentOver(S \ {h})

\* the sum of number_of_sent_packets_ over the registered connections of a kind
SumSent(kind) ==
  SumSentOver({h \in Registered : acl_queue_handlers_[h].connection_type_ = kind})

PoolNow(kind) == PoolOf(kind, acl_packet_credits_, le_acl_packet_credits_)

MaxNow(kind) == PoolOf(kind, max_acl_packet_credits_, le_max_acl_packet_credits_)

\* C1: credit conservation: in every reachable state, for each kind, the available
\* credits plus the sum of number_of_sent_packets_ over the registered connections
\* of that kind equals the maximum credits of that kind.
C1_CreditConservation ==
  \A kind \in Kinds : PoolNow(kind) + SumSent(kind) = MaxNow(kind)

\* C2: in every reachable state both credit pools are at most their maxima, and the
\* two ASSERTs of IncomingAclCredits never fail.
C2_CreditsWithinMax ==
  /\ acl_packet_credits_ <= max_acl_packet_credits_
  /\ le_acl_packet_credits_ <= le_max_acl_packet_credits_
  /\ failed \notin {"assert_acl_max", "assert_le_max"}

\* C3: whenever the HCI egress can pull a fragment, the pool of the front fragment's
\* kind is positive, and the credit ASSERTs of HandleEnqueueNextFragment never fail.
C3_PositivePoolAtDispatch ==
  /\ failed \notin {"assert_acl_credits", "assert_le_credits"}
  /\ (failed = "none" /\ enqueue_registered_ /\ fragments_to_send_ # <<>>)
       => PoolNow(Front(fragments_to_send_).kind) > 0

\* the fragment that follows prev in the concatenation of a connection's payloads
NextInOrder(prev, frag) ==
  IF prev.handle = 0 THEN frag.seq = 1 /\ frag.idx = 1
  ELSE IF prev.idx = prev.cnt THEN frag.seq = prev.seq + 1 /\ frag.idx = 1
  ELSE frag.seq = prev.seq /\ frag.idx = prev.idx + 1

\* frag is a fragment of the fragment list of a payload of its connection
IsFragmentOfPayload(frag) ==
  \E len \in Lens :
    LET list == Fragments(frag.handle, frag.kind, frag.seq, len)
    IN frag.idx \in DOMAIN list /\ [frag EXCEPT !.live = TRUE] = list[frag.idx]

\* a step in which the HCI egress takes a fragment
EmitStep == Len(fragments_to_send_') < Len(fragments_to_send_)

\* C4: every fragment handed to the HCI egress is the next fragment of the
\* concatenation, in delivery order, of the fragment lists of its connection's
\* payloads, and a payload's fragments are emitted contiguously: after a fragment
\* that is not the last of its payload comes the next fragment of that payload.
C4_FragmentOrder ==
  [][EmitStep =>
       LET frag == last_emitted'
       IN /\ IsFragmentOfPayload(frag)
          /\ IF last_emitted.handle # 0 /\ last_emitted.idx < last_emitted.cnt
             THEN /\ frag.handle = last_emitted.handle
                  /\ frag.seq = last_emitted.seq
                  /\ frag.idx = last_emitted.idx + 1
             ELSE frag.idx = 1
          /\ frag.live => /\ NextInOrder(last_of[frag.handle], frag)
                          /\ frag.seq <= delivered[frag.handle]
                          /\ last_of'[frag.handle] = frag]_vars

\* two payloads of several fragments each went out whole on one connection while
\* another connection emitted as well
C4_Witness ==
  /\ last_emitted.handle # 0
  /\ last_emitted.live
  /\ last_emitted.cnt > 1
  /\ last_emitted.idx = last_emitted.cnt
  /\ last_emitted.seq = 2
  /\ \E h \in Handles \ {last_emitted.handle} : last_of[h].handle # 0

\* a step that is IncomingAclCredits(h, n) for some n
CreditReturnStep(h) ==
  \E n \in 1..MaxCredits, ub \in UBOutcomes : IncomingAclCredits(h, n, ub)

\* C5: after SetDisconnect(h), while h stays registered, IncomingAclCredits(h, n)
\* changes neither credit pool nor any connection's number_of_sent_packets_.
C5_CreditsDiscardedAfterSetDisconnect ==
  [][\A h \in Handles :
       (h \in disc_called /\ h \in Registered /\ CreditReturnStep(h)) =>
          /\ acl_packet_credits_' = acl_packet_credits_
          /\ le_acl_packet_credits_' = le_acl_packet_credits_
          /\ \A x \in Registered :
               acl_queue_handlers_'[x].number_of_sent_packets_ =
                 acl_queue_handlers_[x].number_of_sent_packets_]_vars

\* C6: SetDisconnect(h) on a connection of kind K with c outstanding fragments adds
\* exactly c to the pool of K, leaves the other pool unchanged, and leaves the stored
\* record of h with number_of_sent_packets_ = 0 and is_disconnected_ set.
C6_SetDisconnectReclaims ==
  [][\A h \in Handles :
       SetDisconnect(h) =>
          LET rec == acl_queue_handlers_[h]
              c == rec.number_of_sent_packets_
          IN /\ acl_packet_credits_' =
                  acl_packet_credits_ + (IF rec.connection_type_ = "CLASSIC" THEN c ELSE 0)
             /\ le_acl_packet_credits_' =
                  le_acl_packet_credits_ + (IF rec.connection_type_ = "LE" THEN c ELSE 0)
             /\ acl_queue_handlers_'[h].number_of_sent_packets_ = 0
             /\ acl_queue_handlers_'[h].is_disconnected_]_vars

\* C8: with a classic maximum of 1 and one registered classic connection, whatever
\* the LE maximum, nothing fails and the controller never holds more than the one
\* fragment: the second payload's fragment is not emitted before the first is
\* completed.
C8_StarvationAndRecovery ==
  \A h \in Handles :
    (/\ max_acl_packet_credits_ = 1
     /\ nconn = 1
     /\ Registered = {h}
     /\ acl_queue_handlers_[h].connection_type_ = "CLASSIC"
     /\ disc_called = {})
    => /\ failed = "none"
       /\ controller_pending[h] <= 1

\* the position the cursor stands for: the end iterator stands for the first connection
CursorPos(keys, sp) == IF sp \in keys THEN sp ELSE Begin(keys)

\* one position forward in the handle-ordered map, wrapping
CyclicNext(keys, k) ==
  IF \E y \in keys : y > k THEN Min({y \in keys : y > k}) ELSE Begin(keys)

\* a step that calls StartRoundRobin, and whether the call is a registration pass
\* (pass = TRUE) or returns early (pass = FALSE)
StartRoundRobinStep(pass) ==
  \/ /\ \E h \in Handles, kind \in Kinds, ub \in UBOutcomes : Register(h, kind, ub, FALSE)
     /\ fragments_to_send_ = <<>>
     /\ pass = ~NoCredit(acl_packet_credits_, le_acl_packet_credits_)
  \/ /\ \E ub \in UBOutcomes : RunPosted(ub)
     /\ pass = (fragments_to_send_ = <<>>
                /\ ~NoCredit(acl_packet_credits_, le_acl_packet_credits_))
  \/ /\ \E h \in Registered, n \in 1..MaxCredits, ub \in UBOutcomes :
          /\ IncomingAclCredits(h, n, ub)
          /\ ~DropsCredits(acl_queue_handlers_[h])
          /\ ResumeTest(acl_packet_credits_', le_acl_packet_credits_', n)
     /\ failed' \notin {"assert_acl_max", "assert_le_max"}
     /\ pass = (fragments_to_send_ = <<>>)

\* C10: a registration pass of StartRoundRobin moves starting_point_ forward by
\* exactly one position in the handle-ordered map, wrapping from the last connection
\* to the first; a call that returns early leaves the cursor unchanged.
C10_CursorAdvancesByOne ==
  [][/\ StartRoundRobinStep(TRUE) =>
          LET keys == DOMAIN acl_queue_handlers_'
          IN /\ failed' = "none"
             /\ keys # {}
             /\ starting_point_' \in keys \cup {END}
             /\ CursorPos(keys, starting_point_') =
                  CyclicNext(keys, CursorPos(keys, starting_point_))
     /\ StartRoundRobinStep(FALSE) => starting_point_' = starting_point_]_vars

\* C36: cursor safety: in every reachable state in which StartRoundRobin performs a
\* registration pass, the connection map is non-empty and starting_point_ refers to a
\* currently registered connection, so the cursor is never advanced from the end
\* position and never refers to a removed connection; this holds for every
\* interleaving of Register, Unregister and the StartRoundRobin task posted by
\* HandleEnqueueNextFragment.
C36_CursorSafety ==
  [][StartRoundRobinStep(TRUE) =>
       LET keys == DOMAIN acl_queue_handlers_'
       IN /\ keys # {}
          /\ LoopStart(keys, starting_point_) \in keys
          /\ failed' \notin {"ub_next_of_end", "ub_invalid_cursor"}]_vars

\* ------------------------------------------------- classic connections, fair scheduling
\* Two classic connections under a classic maximum of 2.  The dequeue callbacks, the
\* egress pull and the posted StartRoundRobin tasks run on the handler's reactor, which
\* serves whatever stays ready: weak fairness.  The upper layer and the controller
\* (Register, Enqueue, SetDisconnect, IncomingAclCredits) owe nothing.
InitReclaim == InitWith({2}, 0..LeMaxCredits)

RegisterClassic ==
  \E h \in Handles, ub \in UBOutcomes :
    nconn < MaxConns /\ Register(h, "CLASSIC", ub, FALSE)

NextReclaim ==
  \/ RegisterClassic
  \/ SetDisconnectAny
  \/ EnqueueAny
  \/ BufferPacketAny
  \/ HandleEnqueueNextFragment(FALSE)
  \/ RunPostedAny
  \/ IncomingAclCreditsAny

SpecReclaim ==
  /\ InitReclaim
  /\ [][NextReclaim]_vars
  /\ WF_vars(BufferPacketAny)
  /\ WF_vars(HandleEnqueueNextFragment(FALSE))
  /\ WF_vars(RunPostedAny)

\* one single-fragment payload was emitted on each of handles 1 and 2 and none was
\* completed, no payload waits, the scheduler is idle, and SetDisconnect(1) has run
IdleAfterDisconnect ==
  /\ failed = "none"
  /\ Registered = {1, 2}
  /\ disc_called = {1}
  /\ controller_pending[1] = 1 /\ controller_pending[2] = 1
  /\ last_of[1].handle # 0 /\ last_of[1].seq = 1
  /\ last_of[2].handle # 0 /\ last_of[2].seq = 1
  /\ \A h \in Registered : queue_down_end[h] = <<>>
  /\ fragments_to_send_ = <<>>
  /\ ~enqueue_registered_
  /\ posted = 0
  /\ acl_packet_credits_ = 1

\* a payload waits in the egress queue of handle 2
WaitingOnSecond == 2 \in Registered /\ queue_down_end[2] # <<>>

\* the second payload's fragment of handle 2 went out, or the controller returned a credit
SecondEmittedOrCreditReturned ==
  \/ last_of[2].handle # 0 /\ last_of[2].seq = 2
  \/ controller_pending[1] # 1 \/ controller_pending[2] # 1

\* C7: with two classic handles, classic maximum 2 and one single-fragment payload
\* emitted on each, after SetDisconnect(handle 1) the classic pool is 1 and a payload
\* enqueued afterwards on handle 2 is eventually dequeued and its fragment emitted
\* without any further credit return.
C7_DisconnectUnblocks ==
  [](IdleAfterDisconnect => [](WaitingOnSecond => <>SecondEmittedOrCreditReturned))

\* ------------------------------------------------- two classic connections, full queues
\* Handles 1 and 2 stand for 0x0040 and 0x0041.  The classic maximum is 4; each
\* connection gets as many single-fragment payloads as there are classic credits, all
\* of them queued before the reactor serves the first dequeue callback, and the reactor
\* serves the dequeue callbacks in the order they were registered.  The history records
\* the Register, BufferPacket and emission steps.
InitInterleave == InitWith({4}, 0..LeMaxCredits)

\* the two connections of the scenario
Pair == {1, 2}

\* both connections are registered and their payloads queued
AllQueued ==
  /\ Registered = Pair
  /\ \A h \in Pair : delivered[h] = max_acl_packet_credits_

RegisterInterleave ==
  \E h \in Pair, ub \in UBOutcomes : Register(h, "CLASSIC", ub, TRUE)

EnqueueInterleave ==
  \E h \in Pair : delivered[h] < max_acl_packet_credits_ /\ Enqueue(h, HciMtu)

\* the dequeue callback registered first among the connections with a payload waiting
FirstReady ==
  LET ready == SelectSeq(dequeue_order, LAMBDA h : queue_down_end[h] # <<>>)
  IN IF ready = <<>> THEN 0 ELSE Head(ready)

BufferInOrder == AllQueued /\ FirstReady # 0 /\ BufferPacket(FirstReady, TRUE)

\* the controller completes fragments of one of the two connections
IncomingAclCreditsPair ==
  \E h \in Pair, n \in 1..MaxCredits, ub \in UBOutcomes : IncomingAclCredits(h, n, ub)

NextInterleave ==
  \/ RegisterInterleave
  \/ EnqueueInterleave
  \/ BufferInOrder
  \/ HandleEnqueueNextFragment(TRUE)
  \/ RunPostedAny
  \/ IncomingAclCreditsPair

SpecInterleave == InitInterleave /\ [][NextInterleave]_vars

\* the handles of the history entries of one operation, in order
HandlesOf(op) ==
  LET es == SelectSeq(history, LAMBDA e : e.op = op)
  IN [i \in 1..Len(es) |-> es[i].handle]

IsPrefix(s, t) == Len(s) <= Len(t) /\ s = SubSeq(t, 1, Len(s))

\* the controller has completed none of the emitted fragments
NoCreditReturned ==
  controller_pending[1] + controller_pending[2] = Len(HandlesOf("Emit"))

\* handle 1 (0x0040) was registered before handle 2 (0x0041)
RegisteredInHandleOrder == IsPrefix(<<1, 2>>, HandlesOf("Register"))

\* no BufferPacket took a payload of the connection the previous BufferPacket served
\* while another connection had a payload waiting
NoTwoInARow ==
  LET bs == SelectSeq(history, LAMBDA e : e.op = "Buffer")
  IN \A i \in 1..(Len(bs) - 1) :
       bs[i + 1].handle = bs[i].handle => bs[i + 1].waiting = {}

\* C9 as stated: with two classic connections, classic maximum 4 and four
\* single-fragment payloads queued on each, the emitted handles are 1, 2, 1, 2 and
\* nothing more until a credit is returned; and no connection has two payloads
\* buffered in a row while another connection has a payload waiting.
C9_FairInterleave ==
  /\ NoCreditReturned => IsPrefix(HandlesOf("Emit"), <<1, 2, 1, 2>>)
  /\ NoTwoInARow

\* C9, amended: when handle 1 was registered before handle 2, then as long as no
\* credit is returned the emitted handles are 1, 2, 1, 2 in this order and no more, and
\* no connection has two payloads buffered in a row while the other has one waiting.
C9_FairInterleaveInOrder ==
  (RegisteredInHandleOrder /\ NoCreditReturned) =>
     /\ IsPrefix(HandlesOf("Emit"), <<1, 2, 1, 2>>)
     /\ NoTwoInARow

\* the four credits went to handles 1, 2, 1, 2 and no credit came back
C9_Witness ==
  /\ RegisteredInHandleOrder
  /\ NoCreditReturned
  /\ HandlesOf("Emit") = <<1, 2, 1, 2>>
  /\ acl_packet_credits_ = 0

\* C11: in every reachable state, a registered connection has its dequeue registered
\* only if the fragment FIFO is empty and the credit pool of its own kind is positive.
C11_DequeueOnlyWithCredit ==
  \A h \in Registered :
    acl_queue_handlers_[h].dequeue_is_registered_ =>
      /\ fragments_to_send_ = <<>>
      /\ PoolNow(acl_queue_handlers_[h].connection_type_) > 0

\* ------------------------------------------------- connections that stay, fair controller
\* Classic and LE connections are registered and stay; the upper layer queues payloads.
\* The reactor serves the dequeue callbacks, the egress pull and the posted tasks
\* (weak fairness), and the controller completes every fragment it holds (weak fairness
\* of IncomingAclCredits, which is enabled while a connection has a fragment pending).
\* The controller has buffers of both kinds.
InitLive == InitWith(1..MaxCredits, 1..LeMaxCredits)

NextLive ==
  \/ RegisterAny
  \/ EnqueueAny
  \/ BufferPacketAny
  \/ HandleEnqueueNextFragment(FALSE)
  \/ RunPostedAny
  \/ IncomingAclCreditsAny

SpecLive ==
  /\ InitLive
  /\ [][NextLive]_vars
  /\ WF_vars(BufferPacketAny)
  /\ WF_vars(HandleEnqueueNextFragment(FALSE))
  /\ WF_vars(RunPostedAny)
  /\ WF_vars(IncomingAclCreditsAny)

\* the k-th payload of the connection on h waits in its egress queue
PayloadWaiting(h, k) ==
  /\ h \in Registered
  /\ h \notin disc_called
  /\ \E i \in DOMAIN queue_down_end[h] : queue_down_end[h][i].seq = k

\* every fragment of the k-th payload of the connection on h has been emitted
PayloadEmitted(h, k) ==
  /\ last_of[h].handle # 0
  /\ \/ last_of[h].seq > k
     \/ last_of[h].seq = k /\ last_of[h].idx = last_of[h].cnt

\* C12: when the egress keeps pulling, the callbacks run and the controller returns a
\* credit for every fragment emitted, every payload placed in the egress queue of a
\* registered, non-disconnected connection is eventually buffered and all its
\* fragments emitted, for any mix of classic and LE connections.
C12_NoStarvation ==
  \A h \in Handles, k \in 1..MaxDelivered : PayloadWaiting(h, k) ~> PayloadEmitted(h, k)

\* C13: IncomingAclCredits(handle, n) for a handle that is not registered changes
\* nothing: in every reachable state, for every unregistered handle and every n, the
\* call leaves both pools, every record (outstanding count, dequeue flag), the FIFO, the
\* cursor, the dequeue registrations and the enqueue flag as they are and fails nothing.
C13_UnknownHandleDropped ==
  failed = "none" =>
    \A h \in Handles \ Registered, n \in 1..MaxCredits, ub \in UBOutcomes :
      IncomingAclCreditsResult(h, n, ub) = SchedulerNow

\* a connection is gone while another still has fragments outstanding and a dequeue
\* could be registered: the state in which a late credit for the gone handle arrives
C13_Witness ==
  /\ failed = "none"
  /\ Cardinality(Registered) = 1
  /\ nconn = 2
  /\ acl_packet_credits_ = 0
  /\ le_acl_packet_credits_ > 0
  /\ \E h \in Registered : acl_queue_handlers_[h].number_of_sent_packets_ > 0

\* the credit returns the controller can make for connection h: at least one credit, at
\* most what it holds for h
CreditReturns(h) == 1..controller_pending[h]

\* C29: IncomingAclCredits(h, n) for a registered, non-disconnected connection of kind K
\* calls StartRoundRobin exactly when the credit pool of K was zero before the return:
\* in every such case, and not when the pool of K was already positive, whatever the
\* value of the other kind's pool.
C29_ResumeExactlyWhenPoolWasZero ==
  failed = "none" =>
    \A h \in Registered :
      \A n \in CreditReturns(h) :
        ReachesResumeTest(h, n) =>
          (CallsStartRoundRobin(h, n) <=>
             PoolOf(acl_queue_handlers_[h].connection_type_,
                    acl_packet_credits_, le_acl_packet_credits_) = 0)

\* ------------------------------------------------- payloads of every length
\* Connections of either kind, each with one payload of any length from 0 to one byte
\* more than two classic MTUs; the scheduler buffers and emits them.
FragLens == 0..(2 * HciMtu + 1)

EnqueueAnyLength ==
  \E h \in Handles, len \in FragLens : delivered[h] = 0 /\ Enqueue(h, len)

NextFragment ==
  \/ RegisterAny
  \/ EnqueueAnyLength
  \/ BufferPacketAny
  \/ HandleEnqueueNextFragment(FALSE)
  \/ RunPostedAny
  \/ IncomingAclCreditsAny

SpecFragment == Init /\ [][NextFragment]_vars

\* ceil(a / b)
CeilDiv(a, b) == (a + b - 1) \div b

\* ceil(max(1, L) / M)
FragmentCount(L, M) == CeilDiv(IF L > 1 THEN L ELSE 1, M)

\* C14: BufferPacket for a payload of length L of a connection whose kind has MTU M
\* appends exactly ceil(max(1, L) / M) fragments to the FIFO, all with the connection's
\* handle and kind, the first flagged FIRST_AUTOMATICALLY_FLUSHABLE and every later one
\* CONTINUING_FRAGMENT.
C14_FragmentCountAndFlags ==
  [][\A h \in Handles :
       BufferPacket(h, FALSE) =>
         LET L == Head(queue_down_end[h]).len
             kind == acl_queue_handlers_[h].connection_type_
             before == Len(fragments_to_send_)
             after == fragments_to_send_'
         IN /\ Len(after) = before + FragmentCount(L, MtuOf(kind))
            /\ SubSeq(after, 1, before) = fragments_to_send_
            /\ \A i \in (before + 1)..Len(after) :
                 /\ after[i].handle = h
                 /\ after[i].kind = kind
                 /\ after[i].pbf = IF i = before + 1
                                   THEN "FIRST_AUTOMATICALLY_FLUSHABLE"
                                   ELSE "CONTINUING_FRAGMENT"]_vars

\* a payload one byte longer than the MTU of its connection was buffered as two
\* fragments, after a payload of length 0 went out as one fragment
C14_Witness ==
  /\ Len(fragments_to_send_) = 2
  /\ fragments_to_send_[1].size = MtuOf(fragments_to_send_[1].kind)
  /\ fragments_to_send_[2].size = 1
  /\ fragments_to_send_[2].pbf = "CONTINUING_FRAGMENT"
  /\ fragments_to_send_[1].kind = "CLASSIC"
  /\ last_emitted.handle # 0 /\ last_emitted.size = 0 /\ last_emitted.cnt = 1

\* C28: each BufferPacket call that produces k fragments for a connection increases that
\* connection's number_of_sent_packets_ by exactly k: the fragment FIFO is empty at the
\* start of every BufferPacket call, so fragments_to_send_.size() is the number of
\* pieces just produced.
C28_SentGrowsByFragmentCount ==
  [][\A h \in Handles :
       BufferPacket(h, FALSE) =>
         LET L == Head(queue_down_end[h]).len
             kind == acl_queue_handlers_[h].connection_type_
             k == FragmentCount(L, MtuOf(kind))
         IN /\ fragments_to_send_ = <<>>
            /\ Len(fragments_to_send_') = k
            /\ acl_queue_handlers_'[h].number_of_sent_packets_ =
                 acl_queue_handlers_[h].number_of_sent_packets_ + k]_vars

\* after another connection's fragment went out, a payload was buffered as two
\* fragments for a connection whose count stands at two
C28_Witness ==
  /\ Len(fragments_to_send_) = 2
  /\ last_emitted.handle # 0
  /\ \E h \in Registered \ {last_emitted.handle} :
       /\ \A i \in 1..2 : fragments_to_send_[i].handle = h
       /\ acl_queue_handlers_[h].number_of_sent_packets_ = 2

\* the kind whose pool a fragment of the given kind leaves alone
OtherKind(kind) == IF kind = "CLASSIC" THEN "LE" ELSE "CLASSIC"

\* C30: after each HandleEnqueueNextFragment exactly one credit of the popped
\* fragment's kind has been consumed and the popped fragment is the former FIFO front;
\* if the FIFO is now empty the HCI enqueue is unregistered and one StartRoundRobin is
\* posted; if the FIFO is non-empty and the pool of the next fragment's kind is 0 the
\* enqueue is unregistered and nothing is posted; otherwise the enqueue stays
\* registered.
C30_EmitStep ==
  [][EmitStep =>
       LET frag == Front(fragments_to_send_)
           kind == frag.kind
           rest == fragments_to_send_'
       IN /\ rest = Pop(fragments_to_send_)
          /\ last_emitted' = frag
          /\ PoolOf(kind, acl_packet_credits_', le_acl_packet_credits_') =
               PoolOf(kind, acl_packet_credits_, le_acl_packet_credits_) - 1
          /\ PoolOf(OtherKind(kind), acl_packet_credits_', le_acl_packet_credits_') =
               PoolOf(OtherKind(kind), acl_packet_credits_, le_acl_packet_credits_)
          /\ IF rest = <<>>
             THEN ~enqueue_registered_' /\ posted' = posted + 1
             ELSE IF PoolOf(Front(rest).kind, acl_packet_credits_',
                            le_acl_packet_credits_') = 0
             THEN ~enqueue_registered_' /\ posted' = posted
             ELSE enqueue_registered_ /\ enqueue_registered_']_vars

\* the first fragment of a payload went out on the last credit of its kind: the second
\* one waits in the FIFO, the enqueue is unregistered and nothing is posted
C30_Witness ==
  /\ failed = "none"
  /\ fragments_to_send_ # <<>>
  /\ last_emitted.handle = Front(fragments_to_send_).handle
  /\ Front(fragments_to_send_).pbf = "CONTINUING_FRAGMENT"
  /\ PoolOf(Front(fragments_to_send_).kind, acl_packet_credits_, le_acl_packet_credits_) = 0
  /\ ~enqueue_registered_
  /\ posted = 0

\* C33: the fragment FIFO never mixes payloads: in every reachable state all fragments
\* in fragments_to_send_ carry the same handle and the same kind and come from a single
\* payload, because a dequeue callback is registered only while the FIFO is empty and
\* BufferPacket unregisters all dequeues before any other payload can be taken.
C33_FifoHoldsOnePayload ==
  /\ \A i, j \in 1..Len(fragments_to_send_) :
       /\ fragments_to_send_[i].handle = fragments_to_send_[j].handle
       /\ fragments_to_send_[i].kind = fragments_to_send_[j].kind
       /\ fragments_to_send_[i].seq = fragments_to_send_[j].seq
       /\ fragments_to_send_[i].cnt = fragments_to_send_[j].cnt
       /\ fragments_to_send_[j].idx = fragments_to_send_[i].idx + (j - i)
  /\ failed = "none" =>
       \A h \in Registered :
         acl_queue_handlers_[h].dequeue_is_registered_ => fragments_to_send_ = <<>>

\* two fragments of one payload are in the FIFO while the other connection has a
\* payload waiting in its queue
C33_Witness ==
  /\ failed = "none"
  /\ Len(fragments_to_send_) = 2
  /\ \E other \in Registered \ {Front(fragments_to_send_).handle} :
       /\ queue_down_end[other] # <<>>
       /\ ~acl_queue_handlers_[other].dequeue_is_registered_

\* hci_queue_end_->RegisterEnqueue is called: exchange(true) returned false
\* (lines 186-189)
RegistersEnqueue(was, now) == ~was /\ now

\* hci_queue_end_->UnregisterEnqueue is called: exchange(false) returned true
\* (lines 206-208, 214-216)
UnregistersEnqueue(was, now) == was /\ ~now

\* C34: in every reachable state enqueue_registered_ is true only if the fragment FIFO
\* is non-empty, so HandleEnqueueNextFragment is never invoked on an empty FIFO; and the
\* enqueue callback is never registered twice without an unregister in between: every
\* RegisterEnqueue call finds the callback unregistered and fragments to send, and the
\* SendNextFragment of BufferPacket is such a call.
C34_EnqueueOnlyWithFragments ==
  /\ [](enqueue_registered_ => fragments_to_send_ # <<>>)
  /\ [](failed # "ub_front_of_empty")
  /\ [][/\ RegistersEnqueue(enqueue_registered_, enqueue_registered_') =>
            ~enqueue_registered_ /\ fragments_to_send_' # <<>>
        /\ UnregistersEnqueue(enqueue_registered_, enqueue_registered_') =>
            fragments_to_send_ # <<>>
        /\ \A h \in Handles :
             BufferPacket(h, FALSE) =>
               RegistersEnqueue(enqueue_registered_, enqueue_registered_')]_vars

\* the enqueue was unregistered when the first fragment took the only classic credit,
\* and registered again when the controller returned the credit: the second fragment
\* is the front
C34_Witness ==
  /\ failed = "none"
  /\ enqueue_registered_
  /\ max_acl_packet_credits_ = 1
  /\ acl_packet_credits_ = 1
  /\ Len(fragments_to_send_) = 1
  /\ Front(fragments_to_send_).kind = "CLASSIC"
  /\ Front(fragments_to_send_).pbf = "CONTINUING_FRAGMENT"
  /\ last_emitted.handle = Front(fragments_to_send_).handle
  /\ \A h \in Registered : controller_pending[h] = 0

\* C35: Unregister(h) leaves both credit pools unchanged: the credits consumed by
\* fragments of h that the controller has not yet completed are not returned by
\* Unregister, and after h is removed a later IncomingAclCredits(h, n) is dropped as an
\* unknown handle, so those credits come back to the pool only if SetDisconnect(h) was
\* called before Unregister(h): a credit return that raises a pool returns credits
\* that the connection registered on the handle has consumed itself.
C35_UnregisterKeepsPools ==
  /\ [](failed = "none" =>
          /\ \A h \in Registered :
               /\ UnregisterResult(SchedulerNow, h).acl = acl_packet_credits_
               /\ UnregisterResult(SchedulerNow, h).le = le_acl_packet_credits_
          /\ \A h \in Handles \ Registered, n \in 1..MaxCredits, ub \in UBOutcomes :
               /\ IncomingAclCreditsResult(h, n, ub).acl = acl_packet_credits_
               /\ IncomingAclCreditsResult(h, n, ub).le = le_acl_packet_credits_)
  /\ [][/\ \A h \in Handles :
             Unregister(h) =>
               /\ acl_packet_credits_' = acl_packet_credits_
               /\ le_acl_packet_credits_' = le_acl_packet_credits_
        /\ \A h \in Handles, n \in 1..MaxCredits, ub \in UBOutcomes :
             (/\ IncomingAclCredits(h, n, ub)
              /\ failed' = "none"
              /\ <<acl_packet_credits_, le_acl_packet_credits_>>'
                   # <<acl_packet_credits_, le_acl_packet_credits_>>)
               => n <= acl_queue_handlers_[h].number_of_sent_packets_]_vars

\* ------------------------------------------------- disconnects while fragments wait
\* One payload of several fragments per connection, with SetDisconnect called at any
\* moment: before the payload is buffered, while its fragments wait in the FIFO, or
\* after they went out.
\* one byte more than a classic MTU: two classic fragments, or more LE ones
DrainLens == {HciMtu + 1}

EnqueueLong ==
  \E h \in Handles, len \in DrainLens : delivered[h] = 0 /\ Enqueue(h, len)

NextDrain ==
  \/ RegisterAny
  \/ EnqueueLong
  \/ BufferPacketAny
  \/ SetDisconnectAny
  \/ HandleEnqueueNextFragment(FALSE)
  \/ RunPostedAny
  \/ IncomingAclCreditsAny

SpecDrain == Init /\ [][NextDrain]_vars

\* the dequeue-registered flag of every connection
DequeueFlags(hs) == [h \in DOMAIN hs |-> hs[h].dequeue_is_registered_]

\* C31: SetDisconnect(h) does not touch the fragment FIFO: fragments of h that are
\* still queued stay queued in the same order and are later emitted through
\* HandleEnqueueNextFragment like any other fragment, each consuming one credit of its
\* kind; SetDisconnect also leaves the cursor, the dequeue-registered flags and the
\* enqueue-registered flag unchanged.
C31_SetDisconnectLeavesFifo ==
  [][/\ \A h \in Handles :
          SetDisconnect(h) =>
            /\ fragments_to_send_' = fragments_to_send_
            /\ starting_point_' = starting_point_
            /\ DequeueFlags(acl_queue_handlers_') = DequeueFlags(acl_queue_handlers_)
            /\ enqueue_registered_' = enqueue_registered_
     /\ (EmitStep /\ Front(fragments_to_send_).handle \in disc_called) =>
          LET frag == Front(fragments_to_send_)
          IN /\ fragments_to_send_' = Pop(fragments_to_send_)
             /\ last_emitted' = frag
             /\ PoolOf(frag.kind, acl_packet_credits_', le_acl_packet_credits_') =
                  PoolOf(frag.kind, acl_packet_credits_, le_acl_packet_credits_) - 1]_vars

\* SetDisconnect ran while both fragments of a payload were in the FIFO (the classic
\* pool holds the two reclaimed credits on top of the maximum); the first one has gone
\* out since, on one credit, and the second one is the front
C31_Witness ==
  /\ failed = "none"
  /\ Len(fragments_to_send_) = 1
  /\ Front(fragments_to_send_).pbf = "CONTINUING_FRAGMENT"
  /\ Front(fragments_to_send_).kind = "CLASSIC"
  /\ Front(fragments_to_send_).handle \in disc_called
  /\ last_emitted.handle = Front(fragments_to_send_).handle
  /\ acl_packet_credits_ = max_acl_packet_credits_ + 1
  /\ enqueue_registered_

\* the scheduler state the claim compares: the connection map with its records (the
\* dequeue flags among them), the credit pools, the FIFO and the position of the cursor
Comparable(st) ==
  [hs |-> st.hs, acl |-> st.acl, le |-> st.le, fifo |-> st.fifo,
   pos |-> CursorPos(DOMAIN st.hs, st.sp), failed |-> st.failed]

\* Register(h), Unregister(h), Register(h) with no other event in between
RegisterUnregisterRegister(st, h, kind, ub) ==
  RegisterResult(UnregisterResult(RegisterResult(st, h, kind, ub), h), h, kind, ub)

\* C15: from every reachable state in which h is not registered, Register(h),
\* Unregister(h), Register(h) leads to a state equivalent to the one a single
\* Register(h) leads to: same connection map and records, same credit pools, same
\* FIFO, same dequeue-registered flags and same cursor position.
C15_RegisterRoundTrip ==
  failed = "none" =>
    \A h \in Handles \ Registered, kind \in Kinds, ub \in UBOutcomes :
      RegisterResult(SchedulerNow, h, kind, ub).failed = "none" =>
        Comparable(RegisterUnregisterRegister(SchedulerNow, h, kind, ub)) =
          Comparable(RegisterResult(SchedulerNow, h, kind, ub))

\* ------------------------------------------------- callers that break the contract
\* One connection comes and goes; the callers also pass handles that are not registered
\* to SetDisconnect and Unregister.
RegisterOne ==
  \E h \in Handles, kind \in Kinds, ub \in UBOutcomes :
    nconn = 0 /\ Register(h, kind, ub, FALSE)

SetDisconnectUnknownAny == \E h \in Handles : SetDisconnectUnknown(h)

UnregisterUnknownAny == \E h \in Handles : UnregisterUnknown(h)

NextMisuse ==
  \/ RegisterOne
  \/ UnregisterAny
  \/ UnregisterUnknownAny
  \/ SetDisconnectAny
  \/ SetDisconnectUnknownAny
  \/ EnqueueAny
  \/ BufferPacketAny
  \/ HandleEnqueueNextFragment(FALSE)
  \/ RunPostedAny
  \/ IncomingAclCreditsAny

SpecMisuse == Init /\ [][NextMisuse]_vars

\* C16: SetDisconnect(h) for a handle that is not registered aborts the scheduler with
\* a diagnostic and modifies no credit pool and no connection record.
C16_SetDisconnectUnknownAborts ==
  [][\A h \in Handles :
       SetDisconnectUnknown(h) =>
         /\ failed' # "none"
         /\ UNCHANGED <<acl_packet_credits_, le_acl_packet_credits_, acl_queue_handlers_>>]_vars

\* C17: Unregister(h) for a handle that is not registered fails the ASSERT on
\* acl_queue_handlers_.count(handle) == 1 before any scheduler state is changed;
\* for a registered h it never aborts.
C17_UnregisterUnknownFatal ==
  failed = "none" =>
    \A h \in Handles :
      IF h \in Registered
      THEN UnregisterResult(SchedulerNow, h).failed = "none"
      ELSE /\ UnregisterUnknownResult(SchedulerNow, h).failed # "none"
           /\ [UnregisterUnknownResult(SchedulerNow, h) EXCEPT !.failed = "none"]
                = SchedulerNow

\* an Unregister of an unknown handle has aborted the scheduler while a connection
\* with credits outstanding was registered
C17_Witness ==
  /\ failed = "assert_unregister_count"
  /\ \E h \in Registered : acl_queue_handlers_[h].number_of_sent_packets_ > 0

\* ------------------------------------------------------------ ModuleRegistry
\* the lists a ModuleList may hold (std::vector<const ModuleFactory*> list_)
ModuleLists == UNION {[1..n -> Modules] : n \in 0..MaxListLen}

\* the frame of Start(ModuleList*, Thread*) called from outside carries no module
ROOT == 0

\* deepest nesting of Start the thread's stack holds; any nesting deeper than
\* NumModules + 1 frames has a module in it twice and never unwinds
StackLimit == NumModules + 2

Top == call_stack[Len(call_stack)]

Range(seq) == {seq[i] : i \in 1..Len(seq)}

Reverse(seq) == [i \in 1..Len(seq) |-> seq[Len(seq) + 1 - i]]

\* the caller's loop moves two elements on
SkipsNext(stack) ==
  LET n == Len(stack)
  IN [stack EXCEPT ![n] = [@ EXCEPT !.i = @ + 2]]

\* the caller's loop moves to its next element once the call returns (it++, line 56)
Returned(stack) ==
  LET n == Len(stack)
  IN [stack EXCEPT ![n] = [@ EXCEPT !.i = @ + 1]]

\* Start(ModuleList* modules, Thread* thread) is called from outside (lines 55-59)
StartList(roots) ==
  /\ failed = "none"
  /\ call_stack = <<>>
  /\ call_stack' = <<[module |-> ROOT, list |-> roots, i |-> 1]>>
  /\ UNCHANGED <<started_modules_, start_order_, dependencies_, ctor_count, start_count,
                 start_log, stop_order, failed>>
  /\ UNCHANGED schedulerVars
  /\ UNCHANGED cacheVars
  /\ UNCHANGED inquiryVars

\* Start(module, thread) finds the module in started_modules_ and returns its
\* instance (lines 62-65)
StartFindsStarted ==
  /\ failed = "none"
  /\ call_stack # <<>>
  /\ Top.i <= Len(Top.list)
  /\ Top.list[Top.i] \in started_modules_
  /\ call_stack' = Returned(call_stack)
  /\ UNCHANGED <<started_modules_, start_order_, dependencies_, ctor_count, start_count,
                 start_log, stop_order, failed>>
  /\ UNCHANGED schedulerVars
  /\ UNCHANGED cacheVars
  /\ UNCHANGED inquiryVars

\* Start(module, thread) does not find the module: it runs ctor_, lets the instance
\* list its dependencies and enters Start(&instance->dependencies_, thread)
\* (lines 67-72).  A descriptor declares the same list every time.
StartConstructs(deps) ==
  /\ failed = "none"
  /\ call_stack # <<>>
  /\ Top.i <= Len(Top.list)
  /\ LET m == Top.list[Top.i]
     IN /\ m \notin started_modules_
        /\ Len(call_stack) < StackLimit
        /\ IF m \in DOMAIN dependencies_
           THEN deps = dependencies_[m] /\ UNCHANGED dependencies_
           ELSE dependencies_' = [x \in DOMAIN dependencies_ \cup {m} |->
                                    IF x = m THEN deps ELSE dependencies_[x]]
        /\ ctor_count' = [ctor_count EXCEPT ![m] = @ + 1]
        /\ call_stack' = Append(call_stack, [module |-> m, list |-> deps, i |-> 1])
  /\ UNCHANGED <<started_modules_, start_order_, start_count, start_log, stop_order, failed>>
  /\ UNCHANGED schedulerVars
  /\ UNCHANGED cacheVars
  /\ UNCHANGED inquiryVars

\* the nesting of Start calls exhausts the thread's stack
StartOverflows ==
  /\ failed = "none"
  /\ call_stack # <<>>
  /\ Top.i <= Len(Top.list)
  /\ Top.list[Top.i] \notin started_modules_
  /\ Len(call_stack) >= StackLimit
  /\ failed' = "stack_overflow"
  /\ UNCHANGED registryVars
  /\ UNCHANGED schedulerVars
  /\ UNCHANGED cacheVars
  /\ UNCHANGED inquiryVars

\* the instance's Start step may run at once
DependenciesSkipped(frame) == TRUE

\* Start(&instance->dependencies_, thread) has returned: its loop went through the
\* whole list (lines 56-58, 72)
DependenciesDone(frame) == frame.i > Len(frame.list)

\* instance->Start(); start_order_.push_back(module); started_modules_[module] =
\* instance; return instance (lines 74-77)
StartRunsStartStep ==
  /\ failed = "none"
  /\ call_stack # <<>>
  /\ Top.module # ROOT
  /\ DependenciesDone(Top)
  /\ LET m == Top.module
     IN /\ start_count' = [start_count EXCEPT ![m] = @ + 1]
        /\ start_log' = Append(start_log, m)
        /\ start_order_' = Append(start_order_, m)
        /\ started_modules_' = started_modules_ \cup {m}
        /\ call_stack' = Returned(SubSeq(call_stack, 1, Len(call_stack) - 1))
  /\ UNCHANGED <<dependencies_, ctor_count, stop_order, failed>>
  /\ UNCHANGED schedulerVars
  /\ UNCHANGED cacheVars
  /\ UNCHANGED inquiryVars

\* Start(ModuleList*, Thread*) called from outside returns (line 59)
StartListReturns ==
  /\ failed = "none"
  /\ call_stack # <<>>
  /\ Top.module = ROOT
  /\ Top.i > Len(Top.list)
  /\ call_stack' = <<>>
  /\ UNCHANGED <<started_modules_, start_order_, dependencies_, ctor_count, start_count,
                 start_log, stop_order, failed>>
  /\ UNCHANGED schedulerVars
  /\ UNCHANGED cacheVars
  /\ UNCHANGED inquiryVars

\* the Stop steps run front to back
StopForward(order) == order

\* the order in which StopAll's loop visits start_order_: rbegin() to rend() (line 83)
StopSequence(order) == Reverse(order)

\* the instance stays in the map
ErasedNothing(started, m) == started

\* started_modules_.erase(instance) (line 91)
Erased(started, m) == started \ {m}

\* IsStarted(module) (lines 51-53)
IsStarted(m) == m \in started_modules_

\* what StopAll's loop has done after n of its visits: the Stop steps run, the
\* modules still in started_modules_, and the ASSERT of line 85 if a visit did not
\* find its module
RECURSIVE StopLoop(_, _, _, _)
StopLoop(visits, n, started, stopped) ==
  IF n > Len(visits)
  THEN [started |-> started, stopped |-> stopped, failed |-> "none"]
  ELSE IF visits[n] \notin started
       THEN [started |-> started, stopped |-> stopped, failed |-> "assert_stop_not_started"]
       ELSE StopLoop(visits, n + 1, Erased(started, visits[n]), Append(stopped, visits[n]))

\* StopAll() (lines 80-96), called when no Start is in progress
StopAll ==
  /\ failed = "none"
  /\ call_stack = <<>>
  /\ LET r == StopLoop(StopSequence(start_order_), 1, started_modules_, <<>>)
     IN /\ stop_order' = r.stopped
        /\ started_modules_' = r.started
        /\ IF r.failed # "none"
           THEN failed' = r.failed /\ UNCHANGED start_order_
           ELSE IF r.started # {}
                THEN failed' = "assert_started_not_empty" /\ UNCHANGED start_order_
                ELSE start_order_' = <<>> /\ UNCHANGED failed
  /\ ctor_count' = [m \in Modules |-> 0]
  /\ start_count' = [m \in Modules |-> 0]
  /\ start_log' = <<>>
  /\ UNCHANGED <<dependencies_, call_stack>>
  /\ UNCHANGED schedulerVars
  /\ UNCHANGED cacheVars
  /\ UNCHANGED inquiryVars

StartListAny == \E roots \in ModuleLists : StartList(roots)

StartConstructsAny == \E deps \in ModuleLists : StartConstructs(deps)

InitRegistry == InitWith({MaxCredits}, {LeMaxCredits})

NextRegistry ==
  \/ StartListAny
  \/ StartFindsStarted
  \/ StartConstructsAny
  \/ StartOverflows
  \/ StartRunsStartStep
  \/ StartListReturns
  \/ StopAll

SpecRegistry == InitRegistry /\ [][NextRegistry]_vars

\* occurrences of m in seq
Count(seq, m) == Cardinality({i \in 1..Len(seq) : seq[i] = m})

\* C18: whatever the root lists and the dependency graph, a module's constructor and
\* its Start step run at most once until StopAll, exactly once for a started module,
\* and the module appears exactly once in start_order_.
C18_StartedAtMostOnce ==
  \A m \in Modules :
    /\ ctor_count[m] <= 1
    /\ start_count[m] <= 1
    /\ Count(start_order_, m) <= 1
    /\ m \in started_modules_ =>
         ctor_count[m] = 1 /\ start_count[m] = 1 /\ Count(start_order_, m) = 1

\* position of the first occurrence of m in seq, 0 if there is none
IndexOf(seq, m) ==
  IF m \in Range(seq) THEN Min({i \in 1..Len(seq) : seq[i] = m}) ELSE 0

\* C19: when the Start step of a module m is invoked, the Start step of every module d
\* in m's declared dependency list has completed and d is in started_modules_ and in
\* start_order_; d precedes m in start_order_.
C19_DependenciesStartedFirst ==
  [][\A m \in Modules :
       start_count'[m] > start_count[m] =>
         \A d \in Range(dependencies_[m]) :
           /\ start_count[d] >= 1
           /\ d \in Range(start_log)
           /\ d \in started_modules_
           /\ d \in Range(start_order_)
           /\ IndexOf(start_order_', d) < IndexOf(start_order_', m)]_vars

\* two started modules declare the same started dependency
C19_Witness ==
  \E m, n \in started_modules_, d \in started_modules_ :
    /\ m # n
    /\ d \in Range(dependencies_[m]) \cap Range(dependencies_[n])
    /\ IndexOf(start_order_, d) < IndexOf(start_order_, m)

\* C20: StopAll runs the Stop steps in exactly the reverse of the order in which the
\* Start steps completed (the reverse of start_order_), once for each started module;
\* so every module is stopped before any module it declared as a dependency.
C20_StopInReverseStartOrder ==
  [][StopAll =>
       /\ failed' = "none"
       /\ stop_order' = Reverse(start_log)
       /\ stop_order' = Reverse(start_order_)
       /\ \A m \in Modules :
            Count(stop_order', m) = IF m \in started_modules_ THEN 1 ELSE 0
       /\ \A m \in started_modules_ :
            \A d \in Range(dependencies_[m]) :
              IndexOf(stop_order', m) < IndexOf(stop_order', d)]_vars

\* StopAll has just stopped a module and, after it, a module it depends on
C20_Witness ==
  /\ started_modules_ = {}
  /\ start_log = <<>>
  /\ call_stack = <<>>
  /\ Len(stop_order) = NumModules
  /\ \E m, d \in Range(stop_order) :
       /\ d \in Range(dependencies_[m])
       /\ IndexOf(stop_order, m) < IndexOf(stop_order, d)

\* C21: after StopAll returns the registry holds no instance and no start order
\* (IsStarted is false for every module), as a fresh registry does, so a following
\* Start starts the modules again; ASSERT(started_modules_.empty()) never fails.
C21_StopAllEmptiesRegistry ==
  [][StopAll =>
       /\ failed' = "none"
       /\ started_modules_' = {}
       /\ start_order_' = <<>>
       /\ call_stack' = <<>>
       /\ \A m \in Modules : ~IsStarted(m)' /\ ctor_count'[m] = 0 /\ start_count'[m] = 0]_vars

\* after a StopAll that stopped every module, a following Start has started a module
\* and its dependency again, each constructed once
C21_Witness ==
  /\ Len(stop_order) = NumModules
  /\ \E m, d \in started_modules_ :
       /\ m # d
       /\ d \in Range(dependencies_[m])
       /\ start_order_ = <<d, m>>
       /\ ctor_count[m] = 1 /\ ctor_count[d] = 1

\* ------------------------------------------------------------ module lookups
\* the instance is returned whether or not the map holds the module
GetUnchecked(started, m) == [failed |-> "none", instance |-> m]

\* Get(module): ASSERT(instance != started_modules_.end()); return instance->second
\* (lines 45-49); the instance of a module is named by the module
Get(started, m) ==
  IF m \in started
  THEN [failed |-> "none", instance |-> m]
  ELSE [failed |-> "assert_get_not_started", instance |-> ROOT]

\* GetDependency(module) in an instance whose dependencies_.list_ is list: the loop
\* returns registry_->Get(module) at the first match, and ASSERT_LOG(false, ...)
\* follows the loop (lines 35-43)
GetDependency(list, started, d) ==
  IF d \in Range(list)
  THEN Get(started, d)
  ELSE [failed |-> "assert_not_listed", instance |-> ROOT]

\* the instance whose ListDependencies has just filled its list (line 70): its
\* dependencies are not started yet, its Start step has not run
Listing ==
  IF call_stack # <<>> /\ Top.module # ROOT /\ Top.i = 1
  THEN {[module |-> Top.module, list |-> Top.list, started |-> started_modules_]}
  ELSE {}

\* the instances whose Start step has run
Running ==
  {[module |-> m, list |-> dependencies_[m], started |-> started_modules_] :
     m \in started_modules_}

\* the instances as their Stop steps run in a StopAll called now: the n-th visit of
\* the loop finds the modules of the earlier visits erased (lines 83-92)
Stopping ==
  IF call_stack # <<>> THEN {}
  ELSE LET visits == StopSequence(start_order_)
       IN {[module |-> visits[n], list |-> dependencies_[visits[n]],
            started |-> StopLoop(SubSeq(visits, 1, n - 1), 1, started_modules_, <<>>).started] :
             n \in 1..Len(visits)}

\* a client of the registry calls Get(module)
GetCall(m) ==
  /\ failed = "none"
  /\ failed' = Get(started_modules_, m).failed
  /\ UNCHANGED registryVars
  /\ UNCHANGED schedulerVars
  /\ UNCHANGED cacheVars
  /\ UNCHANGED inquiryVars

\* an instance calls GetDependency(module) from its own code
GetDependencyCall(d) ==
  /\ failed = "none"
  /\ \E c \in Listing \cup Running :
       failed' = GetDependency(c.list, c.started, d).failed
  /\ UNCHANGED registryVars
  /\ UNCHANGED schedulerVars
  /\ UNCHANGED cacheVars
  /\ UNCHANGED inquiryVars

GetCallAny == \E m \in Modules : GetCall(m)

GetDependencyCallAny == \E d \in Modules : GetDependencyCall(d)

NextLookup ==
  \/ StartListAny
  \/ StartFindsStarted
  \/ StartConstructsAny
  \/ StartOverflows
  \/ StartRunsStartStep
  \/ StartListReturns
  \/ StopAll
  \/ GetCallAny
  \/ GetDependencyCallAny

SpecLookup == InitRegistry /\ [][NextLookup]_vars

\* Get(m) aborts iff m is not in started_modules_, and otherwise returns m's instance
GetAbortsIffNotStarted ==
  \A m \in Modules :
    LET r == Get(started_modules_, m)
    IN /\ (r.failed # "none") <=> (m \notin started_modules_)
       /\ r.failed = "none" => r.instance = m

\* C22: Get(m) aborts iff m is not in started_modules_; GetDependency(m) called by a
\* module aborts iff m is not in that module's declared dependency list, and
\* otherwise returns the started instance of m.
C22_LookupsAbortOnlyOnViolation ==
  failed = "none" =>
    /\ GetAbortsIffNotStarted
    /\ \A c \in Listing \cup Running \cup Stopping, d \in Modules :
         LET r == GetDependency(c.list, c.started, d)
         IN /\ (r.failed # "none") <=> (d \notin Range(c.list))
            /\ r.failed = "none" => r.instance = d /\ d \in c.started

\* C22 amended: GetDependency(m) aborts iff m is not in the caller's declared
\* dependency list or m is not started; the second case arises only for a caller
\* whose own Start step has not run yet.
C22_LookupsAbortOnViolationOrUnstarted ==
  failed = "none" =>
    /\ GetAbortsIffNotStarted
    /\ \A c \in Listing \cup Running \cup Stopping, d \in Modules :
         LET r == GetDependency(c.list, c.started, d)
         IN /\ (r.failed # "none") <=> (d \notin Range(c.list) \/ d \notin c.started)
            /\ r.failed = "none" => r.instance = d /\ d \in c.started
    /\ \A c \in Running \cup Stopping : Range(c.list) \subseteq c.started

\* a running module has a dependency, and an instance that has just listed its
\* dependencies looks up one that is not started
C22_Witness ==
  /\ failed = "assert_get_not_started"
  /\ \E c \in Running : c.list # <<>>
  /\ \E c \in Listing : \E d \in Range(c.list) : d \notin c.started

\* ------------------------------------------------------------ Start runs to its end
\* The thread that called Start keeps running: every step of Start that can be taken
\* is taken.  The callers (Start from outside, StopAll) owe nothing.
StartProgress ==
  \/ StartFindsStarted
  \/ StartConstructsAny
  \/ StartOverflows
  \/ StartRunsStartStep
  \/ StartListReturns

SpecRegistryLive == SpecRegistry /\ WF_vars(StartProgress)

\* the dependencies a module has declared so far
DeclaredBy(m) == IF m \in DOMAIN dependencies_ THEN Range(dependencies_[m]) ELSE {}

\* the modules reachable from the set through at most n declared dependencies
RECURSIVE Reach(_, _)
Reach(set, n) ==
  IF n = 0 THEN set
  ELSE Reach(set \cup UNION {DeclaredBy(m) : m \in set}, n - 1)

\* the transitive dependency closure of a root list
Closure(roots) == Reach(Range(roots), NumModules)

\* no module depends on itself, directly or through others
Acyclic == \A m \in Modules : m \notin Reach(DeclaredBy(m), NumModules)

\* the modules whose Start is in progress
Starting == {call_stack[i].module : i \in 1..Len(call_stack)} \ {ROOT}

\* C37: ModuleRegistry::Start terminates for every finite acyclic dependency graph, and
\* on return start_order_ contains exactly the modules of the transitive dependency
\* closure of the root list, each once (a call records no module outside the closure
\* and none twice); a module is recorded as started only after its Start step returns,
\* so it is not yet visible through IsStarted/Get while it or its dependencies are
\* starting.
C37_StartTerminates ==
  /\ (call_stack # <<>>) ~> (call_stack = <<>> \/ ~Acyclic)
  /\ [](Acyclic =>
          /\ failed # "stack_overflow"
          /\ \A m \in Starting :
               /\ ~IsStarted(m)
               /\ Get(started_modules_, m).failed # "none"
               /\ m \notin Range(start_order_))
  /\ [][Acyclic' =>
          /\ StartListReturns =>
               /\ Closure(call_stack[1].list) \subseteq Range(start_order_)
               /\ \A m \in Closure(call_stack[1].list) : Count(start_order_, m) = 1
          /\ (start_order_' # start_order_ /\ call_stack # <<>>) =>
               \E m \in Closure(call_stack[1].list) \ Range(start_order_) :
                 /\ start_order_' = Append(start_order_, m)
                 /\ start_count[m] = 0 /\ start_count'[m] = 1
                 /\ ~IsStarted(m) /\ IsStarted(m)']_vars

\* Start has returned on a registry that was empty: three modules in a chain, the root
\* list holding only the first, are started in dependency order
C37_Witness ==
  /\ call_stack = <<>>
  /\ Acyclic
  /\ failed = "none"
  /\ Len(start_order_) = NumModules
  /\ \A i \in 1..(Len(start_order_) - 1) :
       DeclaredBy(start_order_[i + 1]) = {start_order_[i]}
  /\ DeclaredBy(start_order_[1]) = {}

\* ------------------------------------------------------------ ConfigCache
\* A std::string is the sequence of its lines (the pieces between its newlines); a
\* line is a text, or the address GetTestAddress(i) (lines 1244-1249) when dev = i > 0.
Line(text) == [dev |-> 0, text |-> text]

Address(i) == [dev |-> i, text |-> "AA:BB:CC:DD:EE:"]

\* value.erase(newline_position) in TrimAfterNewLine (lines 1423-1426)
Erase(str) == <<str[1]>>

\* the return value of TrimAfterNewLine (lines 1424-1428)
HasNewLine(str) == Len(str) > 1

\* hci::Address::IsValidAddress: the string is one address
IsValidAddress(str) == Len(str) = 1 /\ str[1].dev > 0

\* IsDeviceSection (lines 1573-1575)
IsDeviceSection(section) == IsValidAddress(section)

\* kLinkKeyPropertyNames (lines 1436-1437)
kLinkKeyPropertyNames ==
  {<<Line("LinkKey")>>, <<Line("LE_KEY_PENC")>>, <<Line("LE_KEY_PID")>>,
   <<Line("LE_KEY_PCSRK")>>, <<Line("LE_KEY_LENC")>>, <<Line("LE_KEY_LCSRK")>>}

\* IsLinkKeyProperty (lines 1577-1579)
IsLinkKeyProperty(property) == property \in kLinkKeyPropertyNames

\* common::ListMap: a map that keeps its entries in insertion order
Keys(map) == {map[i].key : i \in 1..Len(map)}

\* find(key): the position of the entry, 0 for end()
Find(map, key) ==
  IF key \in Keys(map) THEN CHOOSE i \in 1..Len(map) : map[i].key = key ELSE 0

\* the mapped value of a key the map contains
ValueOf(map, key) == map[Find(map, key)].value

\* extract(key): the map without the entry
Extract(map, key) == SelectSeq(map, LAMBDA e : e.key # key)

\* an entry that exists keeps its value
InsertIfAbsent(map, key, value) ==
  IF key \in Keys(map) THEN map ELSE Append(map, [key |-> key, value |-> value])

\* ListMap insert_or_assign(key, value): an entry that exists keeps its place
InsertOrAssign(map, key, value) ==
  IF key \in Keys(map)
  THEN [map EXCEPT ![Find(map, key)] = [key |-> key, value |-> value]]
  ELSE Append(map, [key |-> key, value |-> value])

\* common::LruCache, warmest entry first: find(key) warms the entry up
LruFind(cache, key) ==
  IF key \in Keys(cache)
  THEN <<cache[Find(cache, key)]>> \o Extract(cache, key)
  ELSE cache

\* an LruCache that is full gives up its coldest entry before it takes a new one
LruMakeRoom(cache, capacity) ==
  IF Len(cache) >= capacity THEN SubSeq(cache, 1, capacity - 1) ELSE cache

\* LruCache try_emplace(key, value) of a key the cache does not hold
LruTryEmplace(cache, capacity, key, value) ==
  <<[key |-> key, value |-> value]>> \o LruMakeRoom(cache, capacity)

\* LruCache insert_or_assign(key, value): the entry becomes the warmest
LruInsertOrAssign(cache, capacity, key, value) ==
  IF key \in Keys(cache)
  THEN <<[key |-> key, value |-> value]>> \o Extract(cache, key)
  ELSE LruTryEmplace(cache, capacity, key, value)

\* the members of the cache as they are now
CacheNow ==
  [info |-> information_sections_, pers |-> persistent_devices_,
   temp |-> temporary_devices_, cap |-> temp_device_capacity]

\* std::nullopt
Absent == [present |-> FALSE, value |-> <<>>]

\* HasSection(section) (lines 1463-1467)
HasSection(c, section) ==
  section \in Keys(c.info) \/ section \in Keys(c.pers) \/ section \in Keys(c.temp)

\* HasProperty(section, property) (lines 1469-1484)
HasProperty(c, section, property) ==
  IF section \in Keys(c.info) THEN property \in Keys(ValueOf(c.info, section))
  ELSE IF section \in Keys(c.pers) THEN property \in Keys(ValueOf(c.pers, section))
  ELSE IF section \in Keys(c.temp) THEN property \in Keys(ValueOf(c.temp, section))
  ELSE FALSE

\* the lookup GetProperty makes in one of the maps (lines 1488-1494)
Lookup(map, section, property) ==
  IF section \in Keys(map) /\ property \in Keys(ValueOf(map, section))
  THEN [present |-> TRUE, value |-> ValueOf(ValueOf(map, section), property)]
  ELSE Absent

\* GetProperty(section, property) (lines 1486-1510)
GetProperty(c, section, property) ==
  IF Lookup(c.info, section, property).present THEN Lookup(c.info, section, property)
  ELSE IF Lookup(c.pers, section, property).present THEN Lookup(c.pers, section, property)
  ELSE Lookup(c.temp, section, property)

\* section_iter->second.insert_or_assign(property, value) on the section of a ListMap
AssignIn(map, section, property, value) ==
  [map EXCEPT ![Find(map, section)] =
     [key |-> section, value |-> InsertOrAssign(@.value, property, value)]]

\* section_iter->second.extract(property) on the section of a ListMap
ExtractIn(map, section, property) ==
  [map EXCEPT ![Find(map, section)] =
     [key |-> section, value |-> Extract(@.value, property)]]

\* what SetProperty(section, property, value) makes of cache c (lines 1512-1541);
\* || in line 1514 stops trimming at the first string that held a newline
SetPropertyResult(c, section0, property0, value0) ==
  LET section == IF HasNewLine(section0) THEN Erase(section0) ELSE section0
      property == IF ~HasNewLine(section0) /\ HasNewLine(property0)
                  THEN Erase(property0) ELSE property0
      value == IF ~HasNewLine(section0) /\ ~HasNewLine(property0) /\ HasNewLine(value0)
               THEN Erase(value0) ELSE value0
  IN IF ~IsDeviceSection(section)
     THEN LET info1 == IF section \in Keys(c.info) THEN c.info
                       ELSE Append(c.info, [key |-> section, value |-> <<>>])
          IN [c EXCEPT !.info = AssignIn(info1, section, property, value)]
     ELSE IF section \in Keys(c.pers)
     THEN [c EXCEPT !.pers = AssignIn(c.pers, section, property, value)]
     ELSE LET temp1 == IF section \in Keys(c.temp) THEN LruFind(c.temp, section)
                       ELSE LruTryEmplace(c.temp, c.cap, section, <<>>)
              temp2 == AssignIn(temp1, section, property, value)
          IN IF IsLinkKeyProperty(property)
             THEN [c EXCEPT !.temp = Extract(temp2, section),
                            !.pers = InsertOrAssign(c.pers, section, ValueOf(temp2, section))]
             ELSE [c EXCEPT !.temp = temp2]

\* only information_sections_ is tried
RemoveFromInformation(c, section) ==
  IF section \in Keys(c.info)
  THEN [cache |-> [c EXCEPT !.info = Extract(c.info, section)], returns |-> TRUE]
  ELSE [cache |-> c, returns |-> FALSE]

\* what RemoveSection(section) makes of cache c, and what it returns (lines 1543-1548)
RemoveSectionResult(c, section) ==
  IF section \in Keys(c.info)
  THEN [cache |-> [c EXCEPT !.info = Extract(c.info, section)], returns |-> TRUE]
  ELSE IF section \in Keys(c.pers)
  THEN [cache |-> [c EXCEPT !.pers = Extract(c.pers, section)], returns |-> TRUE]
  ELSE IF section \in Keys(c.temp)
  THEN [cache |-> [c EXCEPT !.temp = Extract(c.temp, section)], returns |-> TRUE]
  ELSE [cache |-> c, returns |-> FALSE]

\* a device that loses its link key stays in persistent_devices_
RemoveWithoutMove(c, section, property) ==
  IF section \in Keys(c.info)
  THEN [cache |-> [c EXCEPT !.info = ExtractIn(c.info, section, property)],
        returns |-> property \in Keys(ValueOf(c.info, section))]
  ELSE IF section \in Keys(c.pers)
  THEN [cache |-> [c EXCEPT !.pers = ExtractIn(c.pers, section, property)],
        returns |-> property \in Keys(ValueOf(c.pers, section))]
  ELSE IF section \in Keys(c.temp)
  THEN [cache |-> [c EXCEPT !.temp = ExtractIn(c.temp, section, property)],
        returns |-> property \in Keys(ValueOf(c.temp, section))]
  ELSE [cache |-> c, returns |-> FALSE]

\* a device that loses its link key is put into temporary_devices_ and stays in
\* persistent_devices_ as well
RemoveKeepsPersistent(c, section, property) ==
  LET r == RemoveWithoutMove(c, section, property)
  IN IF section \in Keys(c.pers) /\ r.returns /\ IsLinkKeyProperty(property)
     THEN [cache |-> [r.cache EXCEPT !.temp = LruInsertOrAssign(c.temp, c.cap, section,
                                                ValueOf(r.cache.pers, section))],
           returns |-> TRUE]
     ELSE r

\* what RemoveProperty(section, property) makes of cache c, and what it returns
\* (lines 1550-1571)
RemovePropertyResult(c, section, property) ==
  IF section \in Keys(c.info)
  THEN [cache |-> [c EXCEPT !.info = ExtractIn(c.info, section, property)],
        returns |-> property \in Keys(ValueOf(c.info, section))]
  ELSE IF section \in Keys(c.pers)
  THEN LET had == property \in Keys(ValueOf(c.pers, section))
           pers1 == ExtractIn(c.pers, section, property)
       IN IF had /\ IsLinkKeyProperty(property)
          THEN [cache |-> [c EXCEPT !.pers = Extract(pers1, section),
                                    !.temp = LruInsertOrAssign(c.temp, c.cap, section,
                                                               ValueOf(pers1, section))],
                returns |-> had]
          ELSE [cache |-> [c EXCEPT !.pers = pers1], returns |-> had]
  ELSE IF section \in Keys(c.temp)
  THEN LET temp1 == LruFind(c.temp, section)
       IN [cache |-> [c EXCEPT !.temp = ExtractIn(temp1, section, property)],
           returns |-> property \in Keys(ValueOf(c.temp, section))]
  ELSE [cache |-> c, returns |-> FALSE]

\* the devices are listed latest first
NewestFirst(c) == [i \in 1..Len(c.pers) |-> c.pers[Len(c.pers) + 1 - i].key]

\* GetPersistentDevices() (lines 1591-1599)
GetPersistentDevices(c) == [i \in 1..Len(c.pers) |-> c.pers[i].key]

\* the section SetProperty works on (line 1514)
Trimmed(section) == IF HasNewLine(section) THEN Erase(section) ELSE section

\* SetProperty(section, property, value)
SetProperty(section, property, value, log) ==
  /\ LET c == SetPropertyResult(CacheNow, section, property, value)
     IN /\ information_sections_' = c.info
        /\ persistent_devices_' = c.pers
        /\ temporary_devices_' = c.temp
  /\ touched' = IF log /\ IsDeviceSection(Trimmed(section))
                THEN <<Trimmed(section)>> \o SelectSeq(touched, LAMBDA d : d # Trimmed(section))
                ELSE touched
  /\ UNCHANGED <<temp_device_capacity, failed>>
  /\ UNCHANGED schedulerVars
  /\ UNCHANGED registryVars
  /\ UNCHANGED inquiryVars

\* RemoveSection(section)
RemoveSection(section) ==
  /\ LET c == RemoveSectionResult(CacheNow, section).cache
     IN /\ information_sections_' = c.info
        /\ persistent_devices_' = c.pers
        /\ temporary_devices_' = c.temp
  /\ UNCHANGED <<temp_device_capacity, touched, failed>>
  /\ UNCHANGED schedulerVars
  /\ UNCHANGED registryVars
  /\ UNCHANGED inquiryVars

\* RemoveProperty(section, property)
RemoveProperty(section, property) ==
  /\ LET c == RemovePropertyResult(CacheNow, section, property).cache
     IN /\ information_sections_' = c.info
        /\ persistent_devices_' = c.pers
        /\ temporary_devices_' = c.temp
  /\ UNCHANGED <<temp_device_capacity, touched, failed>>
  /\ UNCHANGED schedulerVars
  /\ UNCHANGED registryVars
  /\ UNCHANGED inquiryVars

\* the strings the callers pass
Devices == {<<Address(i)>> : i \in 1..NumDevices}

CacheSections == {<<Line("A")>>} \cup Devices

CacheProperties == {<<Line("B")>>, <<Line("LinkKey")>>}

CacheValues == {<<Line("")>>, <<Line("C")>>}

\* calls with a newline in one of the strings, or in two of them
NewLineCalls ==
  {<<s, <<Line("B")>>, <<Line("C")>>>> : s \in {<<Line("A"), Line("Z")>>, <<Address(1), Line("Z")>>}}
    \cup {<<<<Line("A")>>, <<Line("B"), Line("Z")>>, <<Line("C")>>>>,
          <<<<Line("A")>>, <<Line("B")>>, <<Line("C"), Line("Z")>>>>,
          <<<<Line("A"), Line("Z")>>, <<Line("B")>>, <<Line("C"), Line("Z")>>>>}

\* the property B takes two values, a link key one
SetPropertyCalls ==
  (CacheSections \X {<<Line("B")>>} \X CacheValues)
    \cup (CacheSections \X {<<Line("LinkKey")>>} \X {<<Line("C")>>})
    \cup NewLineCalls

SetPropertyAny ==
  \E call \in SetPropertyCalls : SetProperty(call[1], call[2], call[3], FALSE)

RemoveSectionAny == \E s \in CacheSections : RemoveSection(s)

RemovePropertyAny == \E s \in CacheSections, p \in CacheProperties : RemoveProperty(s, p)

InitCache ==
  /\ SchedulerFresh({MaxCredits}, {LeMaxCredits})
  /\ RegistryEmpty
  /\ \E capacity \in 1..MaxTempDevices : CacheEmpty(capacity)
  /\ InquiryIdle

NextCache ==
  \/ SetPropertyAny
  \/ RemoveSectionAny
  \/ RemovePropertyAny

SpecCache == InitCache /\ [][NextCache]_vars

\* the strings a caller may ask about
AllSections == {call[1] : call \in SetPropertyCalls}

AllProperties == {call[2] : call \in SetPropertyCalls}

\* the pairs of section and property that cache c reports present
Present(c) == {pair \in AllSections \X AllProperties : HasProperty(c, pair[1], pair[2])}

\* SetProperty(s, p, v) followed by the lookups of s and p gives v, a second
\* SetProperty replaces the value, and no other pair becomes present
RoundTrip(c, s, p, v) ==
  LET c1 == SetPropertyResult(c, s, p, v)
  IN /\ GetProperty(c1, s, p) = [present |-> TRUE, value |-> v]
     /\ HasProperty(c1, s, p)
     /\ HasSection(c1, s)
     /\ \A v2 \in CacheValues :
          GetProperty(SetPropertyResult(c1, s, p, v2), s, p) = [present |-> TRUE, value |-> v2]
     /\ Present(c1) \subseteq Present(c) \cup {<<s, p>>}
     /\ \A pair \in (AllSections \X AllProperties) \ Present(c1) :
          GetProperty(c1, pair[1], pair[2]) = Absent

\* C23: for any section s, property p and value v without a newline, after
\* SetProperty(s, p, v) GetProperty(s, p) returns v (also the empty string) and
\* HasProperty(s, p) and HasSection(s) are true, for device and other sections; a later
\* SetProperty replaces the value; pairs never set are reported absent.
C23_SetGetRoundTrip ==
  \A call \in SetPropertyCalls :
    ~HasNewLine(call[3]) => RoundTrip(CacheNow, call[1], call[2], call[3])

\* C23 amended: the same for any section, property and value none of which contains
\* a newline.
C23_SetGetRoundTripNoNewLine ==
  \A call \in SetPropertyCalls :
    ~HasNewLine(call[1]) /\ ~HasNewLine(call[2]) /\ ~HasNewLine(call[3]) =>
      RoundTrip(CacheNow, call[1], call[2], call[3])

\* the cache holds the empty string in a temporary device, a value in a persistent
\* device and a value in a section that is no device, and the temporary devices are
\* at their limit
C23_Witness ==
  /\ Len(temporary_devices_) = temp_device_capacity
  /\ \E d \in Keys(temporary_devices_) :
       GetProperty(CacheNow, d, <<Line("B")>>) = [present |-> TRUE, value |-> <<Line("")>>]
  /\ \E d \in Keys(persistent_devices_) :
       GetProperty(CacheNow, d, <<Line("B")>>) = [present |-> TRUE, value |-> <<Line("C")>>]
  /\ GetProperty(CacheNow, <<Line("A")>>, <<Line("B")>>) = [present |-> TRUE, value |-> <<Line("C")>>]

\* ------------------------------------------- a cache that is only written to
SetPropertyLogged ==
  \E call \in SetPropertyCalls : SetProperty(call[1], call[2], call[3], TRUE)

NextCacheSet == SetPropertyLogged

SpecCacheSet == InitCache /\ [][NextCacheSet]_vars

\* the first n entries of seq
Take(seq, n) == SubSeq(seq, 1, Min({n, Len(seq)}))

\* the device sections without a link key, by their last SetProperty, latest first
KeylessByRecency == SelectSeq(touched, LAMBDA d : d \notin Keys(persistent_devices_))

\* C24: after any sequence of SetProperty calls on a cache of capacity N, at most N
\* device sections without a link key are kept, and they are the N most recently
\* inserted or updated ones; device sections with a link key are never evicted and
\* all their properties stay readable.
C24_TemporaryDeviceLimit ==
  /\ Len(temporary_devices_) <= temp_device_capacity
  /\ Keys(temporary_devices_) = Range(Take(KeylessByRecency, temp_device_capacity))
  /\ \A d \in Range(touched) :
       HasProperty(CacheNow, d, <<Line("LinkKey")>>) => d \in Keys(persistent_devices_)
  /\ \A d \in Keys(persistent_devices_) :
       /\ HasSection(CacheNow, d)
       /\ \A p \in Keys(ValueOf(persistent_devices_, d)) : GetProperty(CacheNow, d, p).present

\* seq without the entry x
Without(seq, x) == SelectSeq(seq, LAMBDA e : e # x)

\* the calls that make a device persistent: a link-key property is set on a device
\* section that is not persistent
MakesPersistent(c, call) ==
  /\ IsDeviceSection(Trimmed(call[1]))
  /\ Trimmed(call[1]) \notin Keys(c.pers)
  /\ IsLinkKeyProperty(IF HasNewLine(call[1]) THEN call[2] ELSE Trimmed(call[2]))

\* C25: GetPersistentDevices returns exactly the device sections stored as persistent,
\* in the order in which they became persistent: a device section enters the list (at
\* its end, keeping the properties it had) when a link-key property is set on it, and
\* leaves it when RemoveProperty removes its LinkKey; other sections never appear.
C25_PersistentDevicesInOrder ==
  LET c == CacheNow
      list == GetPersistentDevices(c)
  IN /\ Range(list) = Keys(persistent_devices_)
     /\ Len(list) = Cardinality(Range(list))
     /\ \A s \in Range(list) : IsDeviceSection(s)
     /\ \A call \in SetPropertyCalls :
          LET c1 == SetPropertyResult(c, call[1], call[2], call[3])
          IN IF MakesPersistent(c, call)
             THEN /\ GetPersistentDevices(c1) = Append(list, Trimmed(call[1]))
                  /\ \A p \in AllProperties \ {call[2], Trimmed(call[2])} :
                       GetProperty(c1, Trimmed(call[1]), p) = GetProperty(c, Trimmed(call[1]), p)
             ELSE GetPersistentDevices(c1) = list
     /\ \A s \in CacheSections :
          /\ GetPersistentDevices(RemovePropertyResult(c, s, <<Line("LinkKey")>>).cache)
               = IF HasProperty(c, s, <<Line("LinkKey")>>) THEN Without(list, s) ELSE list
          /\ GetPersistentDevices(RemovePropertyResult(c, s, <<Line("B")>>).cache) = list
          /\ GetPersistentDevices(RemoveSectionResult(c, s).cache) = Without(list, s)

\* two devices are persistent, the one that became persistent last was persistent
\* before the other one and lost its LinkKey in between; it kept a property it had as
\* a temporary device; a section that is no device holds a LinkKey property
C25_Witness ==
  /\ GetPersistentDevices(CacheNow) = <<<<Address(2)>>, <<Address(1)>>>>
  /\ Keys(ValueOf(persistent_devices_, <<Address(1)>>)) = {<<Line("B")>>, <<Line("LinkKey")>>}
  /\ ValueOf(persistent_devices_, <<Address(1)>>)[1].key = <<Line("B")>>
  /\ HasProperty(CacheNow, <<Line("A")>>, <<Line("LinkKey")>>)
  /\ Keys(temporary_devices_) # {}

\* cache c1 reports for section s what cache c reports
SameSection(c, c1, s) ==
  /\ HasSection(c1, s) = HasSection(c, s)
  /\ \A p \in CacheProperties :
       /\ HasProperty(c1, s, p) = HasProperty(c, s, p)
       /\ GetProperty(c1, s, p) = GetProperty(c, s, p)

\* C26: RemoveSection(s) returns true iff s existed in the cache; afterwards
\* HasSection(s) is false and every property of s is absent, while every other
\* section and its properties are unchanged.
C26_RemoveSection ==
  \A s \in AllSections :
    LET r == RemoveSectionResult(CacheNow, s)
    IN /\ r.returns = HasSection(CacheNow, s)
       /\ ~HasSection(r.cache, s)
       /\ \A p \in CacheProperties :
            ~HasProperty(r.cache, s, p) /\ GetProperty(r.cache, s, p) = Absent
       /\ \A other \in AllSections \ {s} : SameSection(CacheNow, r.cache, other)

\* a section that is no device, a persistent and a temporary device each hold a
\* property
C26_Witness ==
  /\ HasProperty(CacheNow, <<Line("A")>>, <<Line("B")>>)
  /\ \E d \in Keys(persistent_devices_) : HasProperty(CacheNow, d, <<Line("B")>>)
  /\ \E d \in Keys(temporary_devices_) : HasProperty(CacheNow, d, <<Line("B")>>)

\* RemoveProperty(s, p) returns true iff p existed in s, p is gone afterwards and
\* the other properties of s keep their values
RemovesOnlyProperty(c, r, s, p) ==
  /\ r.returns = HasProperty(c, s, p)
  /\ ~HasProperty(r.cache, s, p)
  /\ GetProperty(r.cache, s, p) = Absent
  /\ HasSection(r.cache, s) = HasSection(c, s)
  /\ \A q \in CacheProperties \ {p} :
       /\ HasProperty(r.cache, s, q) = HasProperty(c, s, q)
       /\ GetProperty(r.cache, s, q) = GetProperty(c, s, q)

\* the temporary device that has to go when RemoveProperty(s, p) moves s into a full
\* temporary_devices_: the coldest one
Evicted(c, s, p) ==
  IF /\ s \in Keys(c.pers)
     /\ HasProperty(c, s, p)
     /\ IsLinkKeyProperty(p)
     /\ Len(c.temp) >= c.cap
  THEN {c.temp[Len(c.temp)].key}
  ELSE {}

\* C27: RemoveProperty(s, p) returns true iff p existed in s; afterwards p is absent
\* from s, and every other property of s and of every other section keeps its value,
\* also when removing a link-key property moves s between the maps.
C27_RemovePropertyFrame ==
  \A s \in CacheSections, p \in CacheProperties :
    LET r == RemovePropertyResult(CacheNow, s, p)
    IN /\ RemovesOnlyProperty(CacheNow, r, s, p)
       /\ \A other \in CacheSections \ {s} : SameSection(CacheNow, r.cache, other)

\* C27 amended: the same, except that when removing a link-key property moves s from
\* the persistent map into a full temporary map, the least recently used temporary
\* device section is evicted; s is then the most recently used temporary device.
C27_RemovePropertyFrameButEviction ==
  \A s \in CacheSections, p \in CacheProperties :
    LET r == RemovePropertyResult(CacheNow, s, p)
    IN /\ RemovesOnlyProperty(CacheNow, r, s, p)
       /\ \A other \in CacheSections \ ({s} \cup Evicted(CacheNow, s, p)) :
            SameSection(CacheNow, r.cache, other)
       /\ \A gone \in Evicted(CacheNow, s, p) : ~HasSection(r.cache, gone)
       /\ (s \in Keys(persistent_devices_) /\ HasProperty(CacheNow, s, p)
             /\ IsLinkKeyProperty(p)) =>
            /\ s \notin Keys(r.cache.pers)
            /\ r.cache.temp # <<>>
            /\ r.cache.temp[1].key = s
            /\ Len(r.cache.temp) <= temp_device_capacity

\* a persistent device holds LinkKey and another property while temporary_devices_
\* is full
C27_Witness ==
  /\ Len(temporary_devices_) = temp_device_capacity
  /\ \E d \in Keys(persistent_devices_) :
       /\ HasProperty(CacheNow, d, <<Line("LinkKey")>>)
       /\ HasProperty(CacheNow, d, <<Line("B")>>)
       /\ Evicted(CacheNow, d, <<Line("LinkKey")>>) # {}

\* ------------------------------------------------- mutations committed in one call
\* The cache takes direct calls and Commit calls; a mutation holds up to MaxEntries
\* entries on one general section and two devices.
MaxEntries == 2

CommitSections == {<<Line("A")>>, <<Address(1)>>, <<Address(2)>>}

\* the entries of a mutation that add a property (entry.is_add)
AddEntries ==
  {[is_add |-> TRUE, section |-> sec, property |-> prop, value |-> <<Line("C")>>] :
     sec \in CommitSections, prop \in CacheProperties}

\* the entries of a mutation that remove: a section with an empty value, a property
\* otherwise
RemoveEntries ==
  {[is_add |-> FALSE, section |-> sec, property |-> prop, value |-> val] :
     sec \in CommitSections, prop \in CacheProperties, val \in CacheValues}

Mutations == UNION {[1..n -> AddEntries \cup RemoveEntries] : n \in 0..MaxEntries}

\* entry.value.empty() (line 1610)
IsEmpty(str) == str = <<Line("")>>

\* what one entry of a mutation makes of cache c (lines 1605-1615)
CommitEntry(c, entry) ==
  IF entry.is_add
  THEN SetPropertyResult(c, entry.section, entry.property, entry.value)
  ELSE IF IsEmpty(entry.value)
  THEN RemoveSectionResult(c, entry.section).cache
  ELSE RemovePropertyResult(c, entry.section, entry.property).cache

\* what Commit(mutation) makes of cache c: the entries front to back (lines 1601-1617)
RECURSIVE CommitResult(_, _)
CommitResult(c, entries) ==
  IF entries = <<>> THEN c
  ELSE CommitResult(CommitEntry(c, Head(entries)), Tail(entries))

\* Commit(mutation)
Commit(entries) ==
  /\ LET c == CommitResult(CacheNow, entries)
     IN /\ information_sections_' = c.info
        /\ persistent_devices_' = c.pers
        /\ temporary_devices_' = c.temp
  /\ UNCHANGED <<temp_device_capacity, touched, failed>>
  /\ UNCHANGED schedulerVars
  /\ UNCHANGED registryVars
  /\ UNCHANGED inquiryVars

CommitAny == \E entries \in Mutations : Commit(entries)

SetPropertyDirect ==
  \E entry \in AddEntries : SetProperty(entry.section, entry.property, entry.value, FALSE)

RemoveSectionDirect == \E sec \in CommitSections : RemoveSection(sec)

RemovePropertyDirect ==
  \E sec \in CommitSections, prop \in CacheProperties : RemoveProperty(sec, prop)

NextCommit ==
  \/ SetPropertyDirect
  \/ RemoveSectionDirect
  \/ RemovePropertyDirect
  \/ CommitAny

SpecCommit == InitCache /\ [][NextCommit]_vars

\* the section names of a map, one element per entry
KeySeq(map) == [i \in 1..Len(map) |-> map[i].key]

\* C32: section names are unique among the three maps: in every reachable state
\* (after any sequence of SetProperty, RemoveProperty, RemoveSection and Commit) no
\* section name is present in more than one of information_sections_,
\* persistent_devices_ and temporary_devices_, so removing a section from the first
\* map that holds it removes it completely.
C32_SectionNamesUnique ==
  LET all == KeySeq(information_sections_) \o KeySeq(persistent_devices_)
               \o KeySeq(temporary_devices_)
  IN /\ \A i, j \in 1..Len(all) : all[i] = all[j] => i = j
     /\ \A sec \in CommitSections :
          ~HasSection(RemoveSectionResult(CacheNow, sec).cache, sec)

\* each of the three maps holds a section, and temporary_devices_ is full
C32_Witness ==
  /\ Len(temporary_devices_) = temp_device_capacity
  /\ temp_device_capacity = 1
  /\ temporary_devices_[1].key \in Devices
  /\ temporary_devices_[1].value # <<>>
  /\ persistent_devices_ # <<>>
  /\ information_sections_ # <<>>

\* ------------------------------------------------- devices with two link keys
\* Two devices take and lose a classic link key, an LE key and a property that is no
\* key, and are removed as sections.
PairedDevices == {<<Address(1)>>, <<Address(2)>>}

PairedProperties == {<<Line("LinkKey")>>, <<Line("LE_KEY_PENC")>>, <<Line("B")>>}

SetPropertyPaired ==
  \E d \in PairedDevices, prop \in PairedProperties :
    SetProperty(d, prop, <<Line("C")>>, FALSE)

RemovePropertyPaired ==
  \E d \in PairedDevices, prop \in PairedProperties : RemoveProperty(d, prop)

RemoveSectionPaired == \E d \in PairedDevices : RemoveSection(d)

NextPaired ==
  \/ SetPropertyPaired
  \/ RemovePropertyPaired
  \/ RemoveSectionPaired

SpecPaired == InitCache /\ [][NextPaired]_vars

\* whether section d of cache c has at least one link-key property
HasLinkKey(c, d) == \E prop \in kLinkKeyPropertyNames : HasProperty(c, d, prop)

\* C38: a device section is stored in persistent_devices_ if and only if it currently
\* has at least one link-key property, in every state reachable by SetProperty,
\* RemoveProperty and RemoveSection; in particular a device that still has one
\* link-key property after another one was removed stays persistent and cannot be
\* evicted by the temporary-device limit.
C38_PersistentIffLinkKey ==
  \A d \in Keys(persistent_devices_) \cup Keys(temporary_devices_) :
    (d \in Keys(persistent_devices_)) <=> HasLinkKey(CacheNow, d)

\* ------------------------------------------------------------------ shim::Inquiry
\* src/gd/shim/inquiry.cc.  The calls into module_ (neighbor::InquiryModule) change nothing
\* in shim::Inquiry::impl and are taken to return.

\* the callers that hand their callbacks to the Start calls
NumClients == 2

Clients == 1..NumClients

\* the LegacyInquiryCallbacks a caller passes: its own four, or with one of them left empty
CallbackSets ==
  { [name \in CallbackNames |-> IF name = hole THEN NullCallback ELSE c] :
      c \in Clients, hole \in CallbackNames \cup {"none"} }

\* RegisterInquiryCallbacks, lines 116-120: the first of the four ASSERTs that fails
RegisterInquiryCallbacks(callbacks) ==
  IF callbacks["result_callback"] = NullCallback THEN "assert_register_result_callback"
  ELSE IF callbacks["result_with_rssi_callback"] = NullCallback
    THEN "assert_register_result_with_rssi_callback"
  ELSE IF callbacks["extended_result_callback"] = NullCallback
    THEN "assert_register_extended_result_callback"
  ELSE IF callbacks["complete_callback"] = NullCallback
    THEN "assert_register_complete_callback"
  ELSE "none"

\* UnregisterInquiryCallbacks, line 124
UnregisterInquiryCallbacks == [name \in CallbackNames |-> NullCallback]

\* some inquiry is recorded as active
AnyInquiryActive ==
  \/ general_inquiry_active_
  \/ limited_inquiry_active_
  \/ general_periodic_inquiry_active_
  \/ limited_periodic_inquiry_active_

\* Inquiry::StartGeneralInquiry, lines 141-145
StartGeneralInquiry(callbacks) ==
  /\ failed = "none"
  /\ callbacks_' = callbacks
  /\ failed' = RegisterInquiryCallbacks(callbacks)
  /\ general_inquiry_active_' = (failed' = "none" \/ general_inquiry_active_)
  /\ UNCHANGED <<limited_inquiry_active_, general_periodic_inquiry_active_,
                 limited_periodic_inquiry_active_>>
  /\ UNCHANGED schedulerVars
  /\ UNCHANGED registryVars
  /\ UNCHANGED cacheVars

\* Inquiry::StartLimitedInquiry, lines 147-151
StartLimitedInquiry(callbacks) ==
  /\ failed = "none"
  /\ callbacks_' = callbacks
  /\ failed' = RegisterInquiryCallbacks(callbacks)
  /\ limited_inquiry_active_' = (failed' = "none" \/ limited_inquiry_active_)
  /\ UNCHANGED <<general_inquiry_active_, general_periodic_inquiry_active_,
                 limited_periodic_inquiry_active_>>
  /\ UNCHANGED schedulerVars
  /\ UNCHANGED registryVars
  /\ UNCHANGED cacheVars

\* Inquiry::StopInquiry, lines 153-162: ignored unless a one-shot inquiry is active
StopInquiry ==
  /\ failed = "none"
  /\ IF ~limited_inquiry_active_ /\ ~general_inquiry_active_
       THEN UNCHANGED <<callbacks_, general_inquiry_active_, limited_inquiry_active_>>
       ELSE /\ limited_inquiry_active_' = FALSE
            /\ general_inquiry_active_' = FALSE
            /\ callbacks_' = UnregisterInquiryCallbacks
  /\ UNCHANGED <<general_periodic_inquiry_active_, limited_periodic_inquiry_active_, failed>>
  /\ UNCHANGED schedulerVars
  /\ UNCHANGED registryVars
  /\ UNCHANGED cacheVars

\* Inquiry::StartGeneralPeriodicInquiry, lines 172-177
StartGeneralPeriodicInquiry(callbacks) ==
  /\ failed = "none"
  /\ callbacks_' = callbacks
  /\ failed' = RegisterInquiryCallbacks(callbacks)
  /\ general_periodic_inquiry_active_' = (failed' = "none" \/ general_periodic_inquiry_active_)
  /\ UNCHANGED <<general_inquiry_active_, limited_inquiry_active_,
                 limited_periodic_inquiry_active_>>
  /\ UNCHANGED schedulerVars
  /\ UNCHANGED registryVars
  /\ UNCHANGED cacheVars

\* Inquiry::StartLimitedPeriodicInquiry, lines 179-184
StartLimitedPeriodicInquiry(callbacks) ==
  /\ failed = "none"
  /\ callbacks_' = callbacks
  /\ failed' = RegisterInquiryCallbacks(callbacks)
  /\ limited_periodic_inquiry_active_' = (failed' = "none" \/ limited_periodic_inquiry_active_)
  /\ UNCHANGED <<general_inquiry_active_, limited_inquiry_active_,
                 general_periodic_inquiry_active_>>
  /\ UNCHANGED schedulerVars
  /\ UNCHANGED registryVars
  /\ UNCHANGED cacheVars

\* Inquiry::StopPeriodicInquiry, lines 186-191: no test of the flags
StopPeriodicInquiry ==
  /\ failed = "none"
  /\ limited_periodic_inquiry_active_' = FALSE
  /\ general_periodic_inquiry_active_' = FALSE
  /\ callbacks_' = UnregisterInquiryCallbacks
  /\ UNCHANGED <<general_inquiry_active_, limited_inquiry_active_, failed>>
  /\ UNCHANGED schedulerVars
  /\ UNCHANGED registryVars
  /\ UNCHANGED cacheVars

\* Inquiry::impl::Result, lines 65-72, for an event of an inquiry the shim has as active
Result ==
  /\ failed = "none"
  /\ AnyInquiryActive
  /\ failed' = IF callbacks_["result_callback"] = NullCallback
                 THEN "assert_result_callback" ELSE "none"
  /\ UNCHANGED inquiryVars
  /\ UNCHANGED schedulerVars
  /\ UNCHANGED registryVars
  /\ UNCHANGED cacheVars

\* Inquiry::impl::ResultWithRssi, lines 74-82
ResultWithRssi ==
  /\ failed = "none"
  /\ AnyInquiryActive
  /\ failed' = IF callbacks_["result_with_rssi_callback"] = NullCallback
                 THEN "assert_result_with_rssi_callback" ELSE "none"
  /\ UNCHANGED inquiryVars
  /\ UNCHANGED schedulerVars
  /\ UNCHANGED registryVars
  /\ UNCHANGED cacheVars

\* Inquiry::impl::ExtendedResult, lines 84-106
ExtendedResult ==
  /\ failed = "none"
  /\ AnyInquiryActive
  /\ failed' = IF callbacks_["extended_result_callback"] = NullCallback
                 THEN "assert_extended_result_callback" ELSE "none"
  /\ UNCHANGED inquiryVars
  /\ UNCHANGED schedulerVars
  /\ UNCHANGED registryVars
  /\ UNCHANGED cacheVars

\* Inquiry::impl::Complete, lines 108-113: ends the one-shot inquiries, keeps the callbacks
Complete ==
  /\ failed = "none"
  /\ AnyInquiryActive
  /\ IF callbacks_["complete_callback"] = NullCallback
       THEN /\ failed' = "assert_complete_callback"
            /\ UNCHANGED <<general_inquiry_active_, limited_inquiry_active_>>
       ELSE /\ limited_inquiry_active_' = FALSE
            /\ general_inquiry_active_' = FALSE
            /\ UNCHANGED failed
  /\ UNCHANGED <<callbacks_, general_periodic_inquiry_active_,
                 limited_periodic_inquiry_active_>>
  /\ UNCHANGED schedulerVars
  /\ UNCHANGED registryVars
  /\ UNCHANGED cacheVars

StartGeneralInquiryAny == \E callbacks \in CallbackSets : StartGeneralInquiry(callbacks)

StartLimitedInquiryAny == \E callbacks \in CallbackSets : StartLimitedInquiry(callbacks)

StartGeneralPeriodicInquiryAny ==
  \E callbacks \in CallbackSets : StartGeneralPeriodicInquiry(callbacks)

StartLimitedPeriodicInquiryAny ==
  \E callbacks \in CallbackSets : StartLimitedPeriodicInquiry(callbacks)

NextInquiry ==
  \/ StartGeneralInquiryAny
  \/ StartLimitedInquiryAny
  \/ StartGeneralPeriodicInquiryAny
  \/ StartLimitedPeriodicInquiryAny
  \/ StopInquiry
  \/ StopPeriodicInquiry
  \/ Result
  \/ ResultWithRssi
  \/ ExtendedResult
  \/ Complete

SpecInquiry == InitRegistry /\ [][NextInquiry]_vars

\* the ASSERTs of the four event handlers
EventAsserts ==
  {"assert_result_callback", "assert_result_with_rssi_callback",
   "assert_extended_result_callback", "assert_complete_callback"}

\* C39: while the process runs, an active flag (general, limited, general periodic or
\* limited periodic) means that all four legacy callbacks are registered, and no Result,
\* ResultWithRssi, ExtendedResult or Complete event of an active inquiry fails the
\* callback-not-null ASSERT of its handler
C39_ActiveImpliesCallbacks ==
  /\ (failed = "none" /\ AnyInquiryActive) =>
       \A name \in CallbackNames : callbacks_[name] # NullCallback
  /\ failed \notin EventAsserts
====
